---- MODULE Spec2Model ----
(***************************************************************************)
(* Model of rindexer_core/src/generator/events_bindings.rs: the ABI-driven *)
(* binding generator.  Text is a sequence of strings: an interpolated      *)
(* value (a name, a type tag, a path) is a sequence of one-character       *)
(* strings, a fixed fragment of a format! template is one multi-character  *)
(* string.  Option<T> is a sequence of length 0 (None) or 1 (Some).        *)
(***************************************************************************)
EXTENDS Naturals, Sequences, FiniteSets, TLC

\* ------------------------------------------------------- type-mapping table
\* The type tags the table of crate::database::postgres has a storage
\* wrapper for.
VARIABLE wrapped_tags

\* ------------------------------------------------------------------ bounds
\* Nesting depth of composite fields in the generated schemas.
MaxDepth == 2
\* Number of items in the multi-item schemas.
MaxItems == 2
\* Number of rows appended to one flat file at run time.
MaxRows == 2

\* -------------------------------------------------------------- text tools
None == <<>>
Some(x) == <<x>>
IsSome(o) == Len(o) = 1
Unwrap(o) == o[1]

RECURSIVE Str(_)
\* The TLA+ string a text denotes (halving keeps the evaluation shallow).
Str(s) ==
  IF s = <<>> THEN ""
  ELSE IF Len(s) = 1 THEN s[1]
  ELSE Str(SubSeq(s, 1, Len(s) \div 2)) \o Str(SubSeq(s, (Len(s) \div 2) + 1, Len(s)))

RECURSIVE Join(_, _)
\* Vec<String>::join(sep)
Join(parts, sep) ==
  IF parts = <<>> THEN <<>>
  ELSE IF Len(parts) = 1 THEN parts[1]
  ELSE Join(SubSeq(parts, 1, Len(parts) \div 2), sep) \o sep
         \o Join(SubSeq(parts, (Len(parts) \div 2) + 1, Len(parts)), sep)

\* Iterator<String>::collect::<String>()
Concat(parts) == Join(parts, <<>>)

Map(f(_), s) == [i \in DOMAIN s |-> f(s[i])]

\* Vec::contains
Contains(s, x) == \E i \in DOMAIN s : s[i] = x

RECURSIVE Filter(_, _)
\* Iterator::filter(p).collect::<Vec<_>>()
Filter(p(_), s) ==
  IF s = <<>> THEN <<>>
  ELSE IF p(s[1]) THEN <<s[1]>> \o Filter(p, Tail(s))
  ELSE Filter(p, Tail(s))

RECURSIVE Split(_, _)
\* The pieces of a text between the tokens equal to sep.
Split(text, sep) ==
  IF text = <<>> THEN <<>>
  ELSE LET at == {i \in DOMAIN text : text[i] = sep}
       IN IF at = {} THEN <<text>>
          ELSE LET i == CHOOSE j \in at : \A k \in at : j <= k
               IN <<SubSeq(text, 1, i - 1)>> \o Split(SubSeq(text, i + 1, Len(text)), sep)

\* Position of the first token equal to tok at or after position from (0 if none).
FirstAt(text, tok, from) ==
  LET at == {i \in from..Len(text) : text[i] = tok}
  IN IF at = {} THEN 0 ELSE CHOOSE i \in at : \A k \in at : i <= k

\* The tokens strictly between the first token a and the next token b.
Between(text, a, b) ==
  LET i == FirstAt(text, a, 1)
      j == FirstAt(text, b, i + 1)
  IN SubSeq(text, i + 1, j - 1)

UpperChars == <<"A","B","C","D","E","F","G","H","I","J","K","L","M",
                "N","O","P","Q","R","S","T","U","V","W","X","Y","Z">>
LowerChars == <<"a","b","c","d","e","f","g","h","i","j","k","l","m",
                "n","o","p","q","r","s","t","u","v","w","x","y","z">>
OtherChars == <<"0","1","2","3","4","5","6","7","8","9",
                "(",")",",","[","]","_",".","/","-","\""," ">>
Chars == UpperChars \o LowerChars \o OtherChars

is_uppercase(c) == \E i \in DOMAIN UpperChars : UpperChars[i] = c
to_ascii_lowercase(c) ==
  IF is_uppercase(c)
  THEN LowerChars[CHOOSE i \in DOMAIN UpperChars : UpperChars[i] = c]
  ELSE c

\* str::to_lowercase
to_lowercase(s) == [i \in DOMAIN s |-> to_ascii_lowercase(s[i])]

RECURSIVE camel_to_snake_from(_, _)
camel_to_snake_from(s, i) ==
  IF i > Len(s) THEN <<>>
  ELSE (IF is_uppercase(s[i])
        THEN (IF i > 1 THEN <<"_">> ELSE <<>>) \o <<to_ascii_lowercase(s[i])>>
        ELSE <<s[i]>>)
       \o camel_to_snake_from(s, i + 1)

\* crate::helpers::camel_to_snake: every uppercase letter is lowercased and,
\* unless it is the first character, preceded by an underscore.
camel_to_snake(s) == camel_to_snake_from(s, 1)

\* ------------------------------------------------------------- vocabulary
t_address == <<"a","d","d","r","e","s","s">>
t_uint256 == <<"u","i","n","t","2","5","6">>
t_tuple == <<"t","u","p","l","e">>
t_tuple_array == <<"t","u","p","l","e","[","]">>
t_event == <<"e","v","e","n","t">>
t_bool == <<"b","o","o","l">>
t_bytes32 == <<"b","y","t","e","s","3","2">>
t_bytes32_array == <<"b","y","t","e","s","3","2","[","]">>
t_bytes_array == <<"b","y","t","e","s","[","]">>
t_address_array == <<"a","d","d","r","e","s","s","[","]">>
t_uint256_array == <<"u","i","n","t","2","5","6","[","]">>
t_function == <<"f","u","n","c","t","i","o","n">>

n_from == <<"f","r","o","m">>
n_to == <<"t","o">>
n_value == <<"v","a","l","u","e">>
n_owner == <<"o","w","n","e","r">>
n_spender == <<"s","p","e","n","d","e","r">>
n_amount == <<"a","m","o","u","n","t">>
n_sender == <<"s","e","n","d","e","r">>
n_tokenId == <<"t","o","k","e","n","I","d">>
n_data == <<"d","a","t","a">>
n_orderInfo == <<"o","r","d","e","r","I","n","f","o">>
n_Transfer == <<"T","r","a","n","s","f","e","r">>
n_Approval == <<"A","p","p","r","o","v","a","l">>
n_transfer == <<"t","r","a","n","s","f","e","r">>
n_Paused == <<"P","a","u","s","e","d">>
n_OrderFilled == <<"O","r","d","e","r","F","i","l","l","e","d">>
n_ERC20 == <<"E","R","C","2","0">>
n_MyIndexer == <<"M","y","I","n","d","e","x","e","r">>
p_csv == <<".","/","c","s","v">>
n_mainnet == <<"m","a","i","n","n","e","t">>
n_polygon == <<"p","o","l","y","g","o","n">>
a_factory == <<"0","x","f","a","c">>
a_token == <<"0","x","a","b","c">>
p_abi == <<".","/","a","b","i",".","j","s","o","n">>

\* ------------------------------------------------------------- data model
\* struct ABIInput (the unused `indexed` attribute is left out)
ABIInput(n, t, c) == [name |-> n, type_ |-> t, components |-> c]
Leaf(n, t) == ABIInput(n, t, None)
Composite(n, t, kids) == ABIInput(n, t, Some(kids))

\* struct ABIItem
ABIItem(t, n, ins) == [inputs |-> ins, name |-> n, type_ |-> t]

\* Storage::postgres_enabled / Storage::csv_enabled (manifest)
postgres_enabled(st) == st.postgres
csv_enabled(st) == IsSome(st.csv)

\* Mutant of read_abi_items: the allow-list is ignored.
read_abi_items_unfiltered(c) == c.abi

\* ------------------------------------------- 4.1 schema loader and filter
\* read_abi_items: the items of the contract's ABI file, narrowed by the
\* optional include_events allow-list (non-events always pass).
read_abi_items(c) ==
  IF IsSome(c.include_events)
  THEN LET keep(item) == item.type_ # t_event
                           \/ Contains(Unwrap(c.include_events), item.name)
       IN Filter(keep, c.abi)
  ELSE c.abi

\* ------------------------------------- 4.2 event signature and identifier
RECURSIVE format_param_type(_)
\* format_param_type: only the exact tag "tuple" is expanded into its
\* components; every other tag is returned verbatim.
format_param_type(input) ==
  IF input.type_ = t_tuple
  THEN <<"(">>
         \o Join(Map(format_param_type, Unwrap(input.components)), <<",">>)
         \o <<")">>
  ELSE input.type_

format_event_signature(item) == Join(Map(format_param_type, item.inputs), <<",">>)

\* EventInfo::new
EventInfo_new(item, signature) ==
  [name |-> item.name,
   inputs |-> item.inputs,
   signature |-> signature,
   struct_result |-> item.name \o <<"Result">>,
   struct_data |-> item.name \o <<"Data">>]

RECURSIVE extract_event_names_and_signatures_from_abi(_)
\* filter_map over the items: one EventInfo per item of type "event".
extract_event_names_and_signatures_from_abi(abi_json) ==
  IF abi_json = <<>> THEN <<>>
  ELSE LET item == abi_json[1]
       IN (IF item.type_ = t_event
           THEN <<EventInfo_new(item, format_event_signature(item))>>
           ELSE <<>>)
          \o extract_event_names_and_signatures_from_abi(Tail(abi_json))

HexDigits == <<"0","1","2","3","4","5","6","7","8","9","a","b","c","d","e","f">>

CharCode(c) == CHOOSE i \in DOMAIN Chars : Chars[i] = c

RECURSIVE Absorb(_, _, _)
Absorb(s, lo, hi) ==
  IF lo > hi THEN 0
  ELSE IF lo = hi THEN (lo * CharCode(s[lo])) % 1009
  ELSE (Absorb(s, lo, (lo + hi) \div 2) + 31 * Absorb(s, ((lo + hi) \div 2) + 1, hi)) % 1009

\* ethers::utils::keccak256: a 32-byte digest that is a function of the
\* whole input text.  The digest's arithmetic is a stand-in; its interface
\* (text in, 32 bytes out, deterministic) is the library's.
keccak256(s) ==
  LET h == Absorb(s, 1, Len(s))
  IN [k \in 1..32 |-> ((h + k) * (h + 7 * k) + Len(s) * k) % 256]

\* Mutant of format_02x: "{:x}", no zero padding.
format_x(byte) ==
  IF byte < 16 THEN <<HexDigits[byte + 1]>>
  ELSE <<HexDigits[(byte \div 16) + 1], HexDigits[(byte % 16) + 1]>>

\* format!("{:02x}", byte)
format_02x(byte) == <<HexDigits[(byte \div 16) + 1], HexDigits[(byte % 16) + 1]>>

\* compute_topic_id: the digest's bytes, each as two lowercase hex digits.
compute_topic_id(event_signature) == Concat(Map(format_02x, keccak256(event_signature)))

\* ------------------------------------------ 4.3 property projection engine
\* crate::database::postgres::solidity_type_to_db_type (type-mapping table)
solidity_type_to_db_type(abi_type) ==
  CASE abi_type = t_address -> <<"C","H","A","R","(","4","2",")">>
    [] abi_type = t_uint256 -> <<"V","A","R","C","H","A","R","(","7","8",")">>
    [] OTHER -> <<"T","E","X","T">>

\* The wrapper reference the table holds for a tag it maps.
EthereumSqlTypeWrapper(abi_type) ==
  CASE abi_type = t_address -> <<"EthereumSqlTypeWrapper::Address">>
    [] abi_type = t_uint256 -> <<"EthereumSqlTypeWrapper::U256">>
    [] OTHER -> <<"EthereumSqlTypeWrapper::">> \o abi_type

\* crate::database::postgres::solidity_type_to_ethereum_sql_type: the wrapper
\* of a tag the table maps, nothing for any other tag.
solidity_type_to_ethereum_sql_type(abi_type) ==
  IF abi_type \in wrapped_tags THEN Some(EthereumSqlTypeWrapper(abi_type)) ELSE None

\* GenerateAbiNamePropertiesResult::new
GenerateAbiNamePropertiesResult_new(value, abi_type) ==
  [value |-> value,
   abi_type |-> abi_type,
   ethereum_sql_type_wrapper |-> solidity_type_to_ethereum_sql_type(abi_type)]

\* enum GenerateAbiPropertiesType
GenerateAbiPropertiesType ==
  {"PostgresWithDataTypes", "PostgresColumnsNamesOnly", "CsvHeaderNames", "Object"}

\* generate_name_format (inner fn of generate_abi_name_properties)
generate_name_format(name) == camel_to_snake(name)

\* prefix.map_or_else(|| "".to_string(), |p| format!("{}<sep>", p))
prefix_with(prefix, sep) == IF IsSome(prefix) THEN Unwrap(prefix) \o <<sep>> ELSE <<>>

\* Mutant of leaf_property: the object path keeps the field's name as-is.
leaf_property_as_is(input, properties_type, prefix) ==
  CASE properties_type = "PostgresWithDataTypes" ->
         GenerateAbiNamePropertiesResult_new(
           <<"\"">> \o prefix_with(prefix, "_") \o generate_name_format(input.name)
             \o <<"\"", " ">> \o solidity_type_to_db_type(input.type_),
           input.type_)
    [] properties_type \in {"PostgresColumnsNamesOnly", "CsvHeaderNames"} ->
         GenerateAbiNamePropertiesResult_new(
           <<"\"">> \o prefix_with(prefix, "_") \o generate_name_format(input.name)
             \o <<"\"">>,
           input.type_)
    [] properties_type = "Object" ->
         GenerateAbiNamePropertiesResult_new(
           prefix_with(prefix, ".") \o input.name, input.type_)

\* Mutant of leaf_property: the typed column carries the type tag itself and
\* no separating space.
leaf_property_untyped(input, properties_type, prefix) ==
  CASE properties_type = "PostgresWithDataTypes" ->
         GenerateAbiNamePropertiesResult_new(
           <<"\"">> \o prefix_with(prefix, "_") \o generate_name_format(input.name)
             \o <<"\"">> \o input.type_,
           input.type_)
    [] properties_type \in {"PostgresColumnsNamesOnly", "CsvHeaderNames"} ->
         GenerateAbiNamePropertiesResult_new(
           <<"\"">> \o prefix_with(prefix, "_") \o generate_name_format(input.name)
             \o <<"\"">>,
           input.type_)
    [] properties_type = "Object" ->
         GenerateAbiNamePropertiesResult_new(
           prefix_with(prefix, ".") \o generate_name_format(input.name),
           input.type_)

\* The leaf branch of generate_abi_name_properties: one result per leaf.
leaf_property(input, properties_type, prefix) ==
  CASE properties_type = "PostgresWithDataTypes" ->
         GenerateAbiNamePropertiesResult_new(
           <<"\"">> \o prefix_with(prefix, "_") \o generate_name_format(input.name)
             \o <<"\"", " ">> \o solidity_type_to_db_type(input.type_),
           input.type_)
    [] properties_type \in {"PostgresColumnsNamesOnly", "CsvHeaderNames"} ->
         GenerateAbiNamePropertiesResult_new(
           <<"\"">> \o prefix_with(prefix, "_") \o generate_name_format(input.name)
             \o <<"\"">>,
           input.type_)
    [] properties_type = "Object" ->
         GenerateAbiNamePropertiesResult_new(
           prefix_with(prefix, ".") \o generate_name_format(input.name),
           input.type_)

\* The prefix handed to the recursion on a field's components: the field's
\* own converted name; the prefix the field itself received is not carried.
child_prefix(input, prefix) == Some(generate_name_format(input.name))

RECURSIVE generate_abi_name_properties_first_child(_, _, _)
\* Mutant of generate_abi_name_properties: a field with components yields
\* the leaves of its first component only.
generate_abi_name_properties_first_child(inputs, properties_type, prefix) ==
  IF inputs = <<>> THEN <<>>
  ELSE LET input == inputs[1]
       IN (IF IsSome(input.components)
           THEN generate_abi_name_properties_first_child(
                  SubSeq(Unwrap(input.components), 1, 1), properties_type,
                  child_prefix(input, prefix))
           ELSE <<leaf_property(input, properties_type, prefix)>>)
          \o generate_abi_name_properties_first_child(Tail(inputs), properties_type, prefix)

RECURSIVE generate_abi_name_properties(_, _, _)
\* generate_abi_name_properties: flat_map over the inputs; a field with
\* components recurses into them, any other field yields one result.
generate_abi_name_properties(inputs, properties_type, prefix) ==
  IF inputs = <<>> THEN <<>>
  ELSE LET input == inputs[1]
       IN (IF IsSome(input.components)
           THEN generate_abi_name_properties(
                  Unwrap(input.components), properties_type, child_prefix(input, prefix))
           ELSE <<leaf_property(input, properties_type, prefix)>>)
          \o generate_abi_name_properties(Tail(inputs), properties_type, prefix)

\* ------------------------------------------------ naming of the artifacts
\* abigen_contract_name / abigen_contract_mod_name / abigen_contract_file_name
abigen_contract_name(c) == <<"Rindexer">> \o c.name \o <<"Gen">>
abigen_contract_mod_name(c) == camel_to_snake(<<"R","i","n","d","e","x","e","r">> \o c.name \o <<"G","e","n">>)
abigen_contract_file_name(c) == camel_to_snake(c.name) \o <<"_abi_gen">>

\* generate_event_type_name
generate_event_type_name(name) == name \o <<"EventType">>

\* crate::database::postgres::indexer_contract_schema_name
indexer_contract_schema_name(indexer_name, contract_name) ==
  camel_to_snake(indexer_name) \o <<"_">> \o camel_to_snake(contract_name)

\* crate::database::postgres::generate_columns_names_only
generate_columns_names_only(inputs) ==
  LET r == generate_abi_name_properties(inputs, "PostgresColumnsNamesOnly", None)
  IN [k \in DOMAIN r |-> r[k].value]

DecimalDigits == <<"0","1","2","3","4","5","6","7","8","9">>
RECURSIVE to_string(_)
\* usize::to_string
to_string(n) ==
  IF n < 10 THEN <<DecimalDigits[n + 1]>>
  ELSE to_string(n \div 10) \o <<DecimalDigits[(n % 10) + 1]>>

\* crate::database::postgres::generate_injected_param: VALUES($1, ..., $count)
generate_injected_param(count) ==
  <<"VALUES(">> \o Join([i \in 1..count |-> <<"$">> \o to_string(i)], <<", ">>) \o <<")">>

\* str::contains(pattern)
str_contains(s, pat) ==
  \E i \in 1..(Len(s) + 1) :
    i + Len(pat) - 1 <= Len(s) /\ SubSeq(s, i, i + Len(pat) - 1) = pat

RECURSIVE str_replace(_, _, _)
\* str::replace(from, to), from non-empty, left to right
str_replace(s, from, to) ==
  IF s = <<>> THEN <<>>
  ELSE IF Len(from) <= Len(s) /\ SubSeq(s, 1, Len(from)) = from
       THEN to \o str_replace(SubSeq(s, Len(from) + 1, Len(s)), from, to)
       ELSE <<s[1]>> \o str_replace(Tail(s), from, to)

t_bytes == <<"b","y","t","e","s">>
t_array_suffix == <<"[","]">>

\* ------------------------------------------- 4.1 second filtering stage
\* Mutant of get_abi_items: the filter stage lets non-event items through.
get_abi_items_keep_non_events(c, is_filter) ==
  LET abi_items == read_abi_items(c)
      is_filter_setup(detail) == detail.setup.kind = "Filter"
      filter_details == Filter(is_filter_setup, c.details)
      filter_event_names == [i \in DOMAIN filter_details |-> filter_details[i].setup.event_name]
      keep(item) == item.type_ # t_event \/ Contains(filter_event_names, item.name)
  IN IF is_filter THEN Filter(keep, abi_items) ELSE abi_items

\* get_abi_items: with is_filter, only the events named by a Filter setup.
get_abi_items(c, is_filter) ==
  LET abi_items == read_abi_items(c)
      is_filter_setup(detail) == detail.setup.kind = "Filter"
      filter_details == Filter(is_filter_setup, c.details)
      filter_event_names == [i \in DOMAIN filter_details |-> filter_details[i].setup.event_name]
      keep(item) == item.type_ = t_event /\ Contains(filter_event_names, item.name)
  IN IF is_filter THEN Filter(keep, abi_items) ELSE abi_items

\* ----------------------------------------- 4.5 binding/dispatch assembler
RECURSIVE generate_structs(_, _)
\* generate_structs: one data alias and result struct per item of type
\* "event" of the ABI file as read (no allow-list is applied here).
generate_structs(c, items) ==
  IF items = <<>> THEN <<>>
  ELSE (IF items[1].type_ = t_event
        THEN <<"pub type ">> \o items[1].name \o <<"Data">> \o <<" = ">>
               \o abigen_contract_mod_name(c) \o <<"::">> \o items[1].name \o <<"Filter;">>
               \o <<"#[derive(Debug)] pub struct ">> \o items[1].name \o <<"Result">>
               \o <<" { pub event_data: ">> \o items[1].name \o <<"Data">>
               \o <<", pub tx_information: TxInformation }">>
        ELSE <<>>)
       \o generate_structs(c, Tail(items))

\* generate_event_enums_code
generate_event_enums_code(event_info) ==
  Join([i \in DOMAIN event_info |->
          event_info[i].name \o <<"(">> \o event_info[i].name \o <<"Event<TExtensions>),">>],
       <<"\n">>)

\* The text that is hashed for an event: name, "(", signature, ")".
event_signature_text(info) == info.name \o <<"(">> \o info.signature \o <<")">>

\* One arm of the topic_id lookup.
topic_id_match_arm(event_type_name, info) ==
  event_type_name \o <<"::">> \o info.name \o <<"(_) => \"0x">>
    \o compute_topic_id(event_signature_text(info)) \o <<"\",">>

\* generate_topic_ids_match_arms_code
generate_topic_ids_match_arms_code(event_type_name, event_info) ==
  Join([i \in DOMAIN event_info |-> topic_id_match_arm(event_type_name, event_info[i])],
       <<"\n">>)

\* generate_event_names_match_arms_code
generate_event_names_match_arms_code(event_type_name, event_info) ==
  Join([i \in DOMAIN event_info |->
          event_type_name \o <<"::">> \o event_info[i].name \o <<"(_) => \"">>
            \o event_info[i].name \o <<"\",">>],
       <<"\n">>)

\* generate_register_match_arms_code
generate_register_match_arms_code(event_type_name, event_info) ==
  Join([i \in DOMAIN event_info |->
          event_type_name \o <<"::">> \o event_info[i].name
            \o <<"(event) => { let event = Arc::new(event); Arc::new(move |result| { let event = event.clone(); async move { event.call(result).await }.boxed() }) },">>],
       <<"\n">>)

\* generate_decoder_match_arms_code
generate_decoder_match_arms_code(event_type_name, event_info) ==
  Join([i \in DOMAIN event_info |->
          event_type_name \o <<"::">> \o event_info[i].name
            \o <<"(_) => { Arc::new(move |topics: Vec<H256>, data: Bytes| { match contract.decode_event::<">>
            \o event_info[i].name \o <<"Data>(\"">> \o event_info[i].name
            \o <<"\", topics, data) { Ok(filter) => Arc::new(filter) as Arc<dyn Any + Send + Sync>, Err(error) => Arc::new(error) as Arc<dyn Any + Send + Sync>, } }) }">>],
       <<"\n">>)

\* Mutant of generate_indexed_vec_string: only the first value is rendered.
generate_indexed_vec_string_first(indexed) ==
  IF IsSome(indexed)
  THEN <<"Some(vec![">>
         \o Join([i \in {k \in DOMAIN Unwrap(indexed) : k = 1} |->
                    <<"\"">> \o Unwrap(indexed)[i] \o <<"\".to_string()">>], <<", ">>)
         \o <<"])">>
  ELSE <<"None">>

\* generate_indexed_vec_string
generate_indexed_vec_string(indexed) ==
  IF IsSome(indexed)
  THEN <<"Some(vec![">>
         \o Join([i \in DOMAIN Unwrap(indexed) |->
                    <<"\"">> \o Unwrap(indexed)[i] \o <<"\".to_string()">>], <<", ">>)
         \o <<"])">>
  ELSE <<"None">>

\* Option<U64> as the literal Some(<n>.into()) / None
block_literal(block) ==
  IF IsSome(block) THEN <<"Some(">> \o to_string(Unwrap(block)) \o <<".into())">> ELSE <<"None">>

\* One ContractDetails constructor of contract_information().
contract_details_literal(detail) ==
  LET start_block == block_literal(detail.start_block)
      end_block == block_literal(detail.end_block)
      polling_every == to_string(IF IsSome(detail.polling_every)
                                 THEN Unwrap(detail.polling_every) ELSE 1000)
      tail == <<",">> \o start_block \o <<",">> \o end_block
                \o <<",", "Some(">> \o polling_every \o <<"),", "),">>
  IN CASE detail.setup.kind = "Address" ->
            <<"ContractDetails::new_with_address(", "\"">> \o detail.network
              \o <<"\".to_string(),", "\"">> \o detail.setup.address \o <<"\".to_string()">>
              \o tail
       [] detail.setup.kind = "Filter" ->
            <<"ContractDetails::new_with_filter(", "\"">> \o detail.network
              \o <<"\".to_string(),", "FilterDetails {", "event_name: \"">>
              \o detail.setup.event_name \o <<"\".to_string(),">>
              \o <<"indexed_1: ">> \o generate_indexed_vec_string(detail.setup.indexed_1) \o <<",">>
              \o <<"indexed_2: ">> \o generate_indexed_vec_string(detail.setup.indexed_2) \o <<",">>
              \o <<"indexed_3: ">> \o generate_indexed_vec_string(detail.setup.indexed_3) \o <<",">>
              \o <<"}">> \o tail
       [] detail.setup.kind = "Factory" ->
            <<"ContractDetails::new_with_factory(", "\"">> \o detail.network
              \o <<"\".to_string(),", "FactoryDetails {", "address: \"">>
              \o detail.setup.address \o <<"\".to_string(),", "event_name: \"">>
              \o detail.setup.event_name \o <<"\".to_string(),", "parameter_name: \"">>
              \o detail.setup.parameter_name \o <<"\".to_string(),", "abi: \"">>
              \o detail.setup.abi \o <<"\".to_string(),", "}">> \o tail

\* generate_contract_type_fn_code: the contract_information() accessor.
generate_contract_type_fn_code(c) ==
  <<"fn contract_information(&self) -> Contract {", "Contract {", "name: \"">> \o c.name
    \o <<"\".to_string(),", "details: ", "vec![">>
    \o Concat(Map(contract_details_literal, c.details)) \o <<"]", ",">>
    \o <<"abi: \"">> \o c.abi_path \o <<"\".to_string(),">>
    \o <<"include_events: ">> \o generate_indexed_vec_string(c.include_events) \o <<",">>
    \o <<"reorg_safe_distance: ">> \o <<IF c.reorg_safe_distance THEN "true" ELSE "false">> \o <<",">>
    \o <<"generate_csv: ">> \o <<IF c.generate_csv THEN "true" ELSE "false">> \o <<",">>
    \o <<"}", "}">>

\* super::networks_bindings::network_provider_fn_name_by_name
network_provider_fn_name_by_name(network) == <<"get_">> \o camel_to_snake(network) \o <<"_provider">>

\* build_get_provider_fn: one branch per entry of the network list, then
\* the panicking else.
build_get_provider_fn(networks) ==
  <<"fn get_provider(&self, network: &str) -> &'static Arc<Provider<RetryClient<Http>>> {\n">>
    \o Concat([i \in DOMAIN networks |->
                 (IF i > 1 THEN <<" else ">> ELSE <<>>)
                   \o <<"if network == \"">> \o networks[i]
                   \o <<"\" {", "return super::super::super::networks::">>
                   \o network_provider_fn_name_by_name(networks[i]) \o <<"();", "}">>])
    \o <<"else {", "panic!(\"Network not supported\")", "}", "}">>

\* build_contract_fn: one branch per network entry, then the panicking else.
build_contract_fn(contracts_details, abi_gen_name) ==
  <<"fn contract(&self, network: &str) -> ">> \o abi_gen_name
    \o <<"<Arc<Provider<RetryClient<Http>>>> {">>
    \o Concat([i \in DOMAIN contracts_details |->
                 (IF i = 1 THEN <<"    if ">> ELSE <<"    else if ">>)
                   \o <<"network == \"">> \o contracts_details[i].network
                   \o <<"\" {", "let address: Address = \"">>
                   \o (IF contracts_details[i].setup.kind = "Address"
                       THEN contracts_details[i].setup.address
                       ELSE <<"0x0000000000000000000000000000000000000000">>)
                   \o <<"\".parse().unwrap();">>
                   \o abi_gen_name
                   \o <<"::new(address, Arc::new(self.get_provider(network).clone()))", "}">>])
    \o <<"else {", "panic!(\"Network not supported\");", "}", "}">>

\* The header row of an event's flat file.
csv_headers(info) ==
  LET r == generate_abi_name_properties(info.inputs, "CsvHeaderNames", None)
  IN <<<<"\"contract_address\"">>>> \o [k \in DOMAIN r |-> r[k].value]
       \o << <<"\"tx_hash\"">>, <<"\"block_number\"">>, <<"\"block_hash\"">> >>

\* generate_csv_instance: the appender construction and, only when the
\* contract's generate_csv is set, the directory creation and the guarded
\* header write.  `created` is whether fs::create_dir_all succeeds.
generate_csv_instance(c, info, csv, created) ==
  IF ~c.generate_csv
  THEN [panic |-> FALSE, dirs |-> {},
        text |-> <<"let csv = AsyncCsvAppender::new(\"">>
                   \o (IF IsSome(csv) THEN Unwrap(csv).path ELSE <<"./generated_csv">>)
                   \o <<"\".to_string());">>]
  ELSE IF ~IsSome(csv)
  THEN [panic |-> TRUE, dirs |-> {}, text |-> <<>>]
  ELSE LET csv_file_name == to_lowercase(c.name \o <<"-">> \o info.name \o <<".","c","s","v">>)
           csv_folder == Unwrap(csv).path \o <<"/">> \o c.name
           csv_path == csv_folder \o <<"/">> \o csv_file_name
       IN IF ~created
          THEN [panic |-> TRUE, dirs |-> {}, text |-> <<>>]
          ELSE [panic |-> FALSE, dirs |-> {csv_folder},
                text |-> <<"let csv = AsyncCsvAppender::new(\"">> \o csv_path
                           \o <<"\".to_string());">>
                           \o <<"if !Path::new(\"">> \o csv_path \o <<"\").exists() {">>
                           \o <<"csv.append_header(vec![">>
                           \o Join(csv_headers(info), <<".into(), ">>)
                           \o <<".into()]).await.unwrap();">> \o <<"}">>]

\* Mutant of event_callback_struct: the items are downcast to the result
\* record instead of the data record.
event_callback_struct_downcast_result(info, databases_enabled, csv_generator) ==
  <<"type ">> \o info.name \o <<"EventCallbackType<TExtensions> = Arc<dyn Fn(&Vec<">>
    \o info.struct_result
    \o <<">, Arc<EventContext<TExtensions>>) -> BoxFuture<'_, ()> + Send + Sync>;">>
    \o <<"pub struct ">> \o info.name \o <<"Event<TExtensions>">>
    \o <<"impl<TExtensions> ">> \o info.name \o <<"Event<TExtensions> { pub async fn new(callback, extensions) -> Self {">>
    \o csv_generator
    \o <<"Self { callback, context: Arc::new(EventContext {">>
    \o (IF databases_enabled
        THEN <<"database: Arc::new(PostgresClient::new().await.unwrap()),">>
        ELSE <<>>)
    \o <<"csv: Arc::new(csv), extensions: Arc::new(extensions), }), } } }">>
    \o <<"impl<TExtensions> EventCallback for ">> \o info.name
    \o <<"Event<TExtensions> { async fn call(&self, events: Vec<EventResult>) {">>
    \o <<"let result: Vec<">> \o info.struct_result
    \o <<"> = events.into_iter().filter_map(|item| item.decoded_data.downcast::<">>
    \o info.struct_result \o <<">().ok().map(|arc| ">> \o info.struct_result
    \o <<" { event_data: (*arc).clone(), tx_information: item.tx_information })).collect();">>
    \o <<"if result.len() == events_len { (self.callback)(&result, self.context.clone()).await; } else { panic!(\"">>
    \o info.name \o <<"Event: Unexpected data type - expected: ">> \o info.struct_data
    \o <<"\") } } }">>

\* The text generate_event_callback_structs_code emits for one event.
event_callback_struct(info, databases_enabled, csv_generator) ==
  <<"type ">> \o info.name \o <<"EventCallbackType<TExtensions> = Arc<dyn Fn(&Vec<">>
    \o info.struct_result
    \o <<">, Arc<EventContext<TExtensions>>) -> BoxFuture<'_, ()> + Send + Sync>;">>
    \o <<"pub struct ">> \o info.name \o <<"Event<TExtensions>">>
    \o <<"impl<TExtensions> ">> \o info.name \o <<"Event<TExtensions> { pub async fn new(callback, extensions) -> Self {">>
    \o csv_generator
    \o <<"Self { callback, context: Arc::new(EventContext {">>
    \o (IF databases_enabled
        THEN <<"database: Arc::new(PostgresClient::new().await.unwrap()),">>
        ELSE <<>>)
    \o <<"csv: Arc::new(csv), extensions: Arc::new(extensions), }), } } }">>
    \o <<"impl<TExtensions> EventCallback for ">> \o info.name
    \o <<"Event<TExtensions> { async fn call(&self, events: Vec<EventResult>) {">>
    \o <<"let result: Vec<">> \o info.struct_result
    \o <<"> = events.into_iter().filter_map(|item| item.decoded_data.downcast::<">>
    \o info.struct_data \o <<">().ok().map(|arc| ">> \o info.struct_result
    \o <<" { event_data: (*arc).clone(), tx_information: item.tx_information })).collect();">>
    \o <<"if result.len() == events_len { (self.callback)(&result, self.context.clone()).await; } else { panic!(\"">>
    \o info.name \o <<"Event: Unexpected data type - expected: ">> \o info.struct_data
    \o <<"\") } } }">>

\* generate_event_callback_structs_code: the events in order; the first
\* panic of generate_csv_instance ends the pass.
generate_event_callback_structs_code(event_info, c, st, created) ==
  LET csv_of(i) == generate_csv_instance(c, event_info[i], st.csv, created)
      panics == {i \in DOMAIN event_info : csv_of(i).panic}
  IN IF panics # {}
     THEN [panic |-> TRUE,
           dirs |-> UNION {csv_of(i).dirs : i \in {j \in DOMAIN event_info : \A k \in panics : j < k}},
           text |-> <<>>]
     ELSE [panic |-> FALSE,
           dirs |-> UNION {csv_of(i).dirs : i \in DOMAIN event_info},
           text |-> Join([i \in DOMAIN event_info |->
                            event_callback_struct(event_info[i], postgres_enabled(st), csv_of(i).text)],
                         <<"\n">>)]

\* generate_event_bindings_code: the holes of the artifact template, in the
\* order the template names them.
generate_event_bindings_code(indexer_name, c, st, event_info, created) ==
  LET event_type_name == generate_event_type_name(c.name)
      callbacks == generate_event_callback_structs_code(event_info, c, st, created)
  IN IF callbacks.panic
     THEN [status |-> "panic", dirs |-> callbacks.dirs, code |-> <<>>]
     ELSE [status |-> "ok", dirs |-> callbacks.dirs,
           code |-> <<[client_import |-> IF postgres_enabled(st) THEN <<"PostgresClient,">> ELSE <<>>,
                       abigen_file_name |-> abigen_contract_file_name(c),
                       abigen_mod_name |-> abigen_contract_mod_name(c),
                       abigen_name |-> abigen_contract_name(c),
                       structs |-> generate_structs(c, c.abi),
                       event_type_name |-> event_type_name,
                       event_context_database |->
                         IF postgres_enabled(st) THEN <<"pub database: Arc<PostgresClient>,">>
                         ELSE <<>>,
                       event_callback_structs |-> callbacks.text,
                       event_enums |-> generate_event_enums_code(event_info),
                       topic_ids_match_arms |->
                         generate_topic_ids_match_arms_code(event_type_name, event_info),
                       event_names_match_arms |->
                         generate_event_names_match_arms_code(event_type_name, event_info),
                       contract_type_fn |-> generate_contract_type_fn_code(c),
                       build_get_provider_fn |->
                         build_get_provider_fn([i \in DOMAIN c.details |-> c.details[i].network]),
                       build_contract_fn |->
                         build_contract_fn(c.details, abigen_contract_name(c)),
                       decoder_match_arms |->
                         generate_decoder_match_arms_code(event_type_name, event_info),
                       register_match_arms |->
                         generate_register_match_arms_code(event_type_name, event_info),
                       indexer_name |-> indexer_name]>>]

\* ------------------------------------------- 4.4 persistence-sink assembler
\* The value expression of one projected field in the parameter list.
postgres_param(item) ==
  IF IsSome(item.ethereum_sql_type_wrapper)
  THEN <<"&">> \o Unwrap(item.ethereum_sql_type_wrapper) \o <<"(&result.event_data.">>
         \o item.value
         \o (IF str_contains(item.abi_type, t_bytes)
             THEN (IF str_replace(str_replace(item.abi_type, t_bytes, <<>>), t_array_suffix, <<>>) # <<>>
                   THEN <<".into()">> ELSE <<>>)
             ELSE <<>>)
         \o <<"),">>
  ELSE <<"&result.event_data.">> \o item.value \o <<",">>

\* insert_sql.replace('"', "\\\"")
escape_quotes(text) == Concat([i \in DOMAIN text |-> IF text[i] = "\"" THEN <<"\\", "\"">> ELSE <<text[i]>>])

\* The relational write of one event (the storage.postgres_enabled() block).
postgres_write_of(indexer_name, c, event, abi_name_properties) ==
  LET columns == generate_columns_names_only(event.inputs)
      schema_name == indexer_contract_schema_name(indexer_name, c.name)
      insert_sql == <<"INSERT INTO ">> \o schema_name \o <<".">> \o camel_to_snake(event.name)
                      \o <<" (contract_address, ">> \o Join(columns, <<", ">>)
                      \o <<", ", "\"", "tx_hash", "\"", ", ", "\"", "block_number", "\"",
                           ", ", "\"", "block_hash", "\"", ") ">>
                      \o generate_injected_param(4 + Len(columns))
      params_sql == <<"&[&EthereumSqlTypeWrapper::Address(&result.tx_information.address),">>
                      \o Concat(Map(postgres_param, abi_name_properties))
                      \o <<"&EthereumSqlTypeWrapper::H256(&result.tx_information.transaction_hash.unwrap()),",
                           "&EthereumSqlTypeWrapper::U64(&result.tx_information.block_number.unwrap()),",
                           "&EthereumSqlTypeWrapper::H256(&result.tx_information.block_hash.unwrap())",
                           "]">>
  IN <<"context.database.execute(\"">> \o escape_quotes(insert_sql) \o <<"\",">>
       \o params_sql \o <<").await.unwrap();">>

\* The row entry of one projected field, chosen by its type tag.
csv_value(item) ==
  IF item.abi_type = t_address
  THEN <<"format!(\"{:?}\", ">> \o <<"result.event_data.">> \o item.value \o <<",">> \o <<"),">>
  ELSE IF str_contains(item.abi_type, t_bytes)
  THEN <<"result.event_data.">> \o item.value
         \o <<".iter().map(|byte| format!(\"{:02x}\", byte)).collect::<Vec<_>>().join(\"\"),">>
  ELSE IF str_contains(item.abi_type, t_array_suffix)
  THEN <<"result.event_data.">> \o item.value
         \o <<".iter().map(ToString::to_string).collect::<Vec<_>>().join(\",\"),">>
  ELSE <<"result.event_data.">> \o item.value \o <<".to_string(),">>

\* Mutant of csv_write_of: the field values are written in reverse order.
csv_write_of_reversed(abi_name_properties) ==
  <<"context.csv.append(vec![">>
    \o <<"format!(\"{:?}\", result.tx_information.address),">>
    \o Concat([k \in DOMAIN abi_name_properties |->
                 csv_value(abi_name_properties[Len(abi_name_properties) + 1 - k])])
    \o <<"format!(\"{:?}\", result.tx_information.transaction_hash.unwrap()),",
         "result.tx_information.block_number.unwrap().to_string(),",
         "result.tx_information.block_hash.unwrap().to_string()">>
    \o <<"]).await.unwrap();">>

\* The flat-file write of one event (the storage.csv_enabled() block).
csv_write_of(abi_name_properties) ==
  <<"context.csv.append(vec![">>
    \o <<"format!(\"{:?}\", result.tx_information.address),">>
    \o Concat(Map(csv_value, abi_name_properties))
    \o <<"format!(\"{:?}\", result.tx_information.transaction_hash.unwrap()),",
         "result.tx_information.block_number.unwrap().to_string(),",
         "result.tx_information.block_hash.unwrap().to_string()">>
    \o <<"]).await.unwrap();">>

\* The body of the loop of generate_event_handlers for one event.
event_handler(indexer_name, c, st, event) ==
  LET abi_name_properties == generate_abi_name_properties(event.inputs, "Object", None)
  IN [handler_fn_name |-> camel_to_snake(event.name),
      handler_name |-> event.name,
      event_type_name |-> generate_event_type_name(c.name),
      csv_write |-> IF csv_enabled(st) THEN csv_write_of(abi_name_properties) ELSE <<>>,
      postgres_write |-> IF postgres_enabled(st)
                         THEN postgres_write_of(indexer_name, c, event, abi_name_properties)
                         ELSE <<>>]

\* generate_event_handlers, after it has its events: imports, one handler
\* per event, and the registry function calling each handler.
generate_event_handlers_code(indexer_name, c, st, event_names) ==
  [imports |-> <<"use rindexer_core::{generator::event_callback_registry::{EventCallbackRegistry}, EthereumSqlTypeWrapper};",
                 "use std::sync::Arc;\n",
                 "use super::super::super::typings::">> \o camel_to_snake(indexer_name)
                 \o <<"::events::">> \o camel_to_snake(c.name) \o <<"::{no_extensions, ">>
                 \o generate_event_type_name(c.name)
                 \o Concat([i \in DOMAIN event_names |-> <<",">> \o event_names[i].name \o <<"Event">>])
                 \o <<"};\n">>,
   handlers |-> [i \in DOMAIN event_names |-> event_handler(indexer_name, c, st, event_names[i])],
   registry_fn |-> <<"pub async fn ">> \o camel_to_snake(c.name)
                     \o <<"_handlers(registry: &mut EventCallbackRegistry) {">>
                     \o Concat([i \in DOMAIN event_names |->
                                  camel_to_snake(event_names[i].name) \o <<"_handler(registry).await;">>])
                     \o <<"}">>]

\* ------------------------------------------------------- the entry points
\* The directory generate_csv_instance creates for a contract.
csv_folder_of(c, st) == Unwrap(st.csv).path \o <<"/">> \o c.name

\* Mutant of create_dir_all_outcomes: fs::create_dir, which fails on a
\* directory that exists.
create_dir_outcomes(c, st, dirs) ==
  IF IsSome(st.csv) /\ csv_folder_of(c, st) \in dirs THEN {FALSE} ELSE BOOLEAN

\* fs::create_dir_all(&csv_folder): succeeds on a directory that exists,
\* succeeds or fails on one that does not.
create_dir_all_outcomes(c, st, dirs) ==
  IF IsSome(st.csv) /\ csv_folder_of(c, st) \in dirs THEN {TRUE} ELSE BOOLEAN

\* fs::read_to_string(&contract.abi)? and serde_json::from_str(&abi_str)?:
\* the error the `?` returns, if any.
read_abi_source(c) ==
  CASE c.abi_source = "unreadable" -> "Err(io::Error)"
    [] c.abi_source = "malformed" -> "Err(serde_json::Error)"
    [] OTHER -> "Ok"

\* Mutant of generate_event_bindings: the schema source is not checked and
\* the artifact is assembled from whatever items there are.
generate_event_bindings_unchecked(indexer_name, c, is_filter, st, created) ==
  generate_event_bindings_code(
    indexer_name, c, st,
    extract_event_names_and_signatures_from_abi(get_abi_items(c, is_filter)), created)

\* generate_event_bindings: the schema is loaded and narrowed first; an
\* error of the read or the parse is returned before anything is assembled.
generate_event_bindings(indexer_name, c, is_filter, st, created) ==
  IF read_abi_source(c) # "Ok"
  THEN [status |-> read_abi_source(c), dirs |-> {}, code |-> <<>>]
  ELSE generate_event_bindings_code(
         indexer_name, c, st,
         extract_event_names_and_signatures_from_abi(get_abi_items(c, is_filter)), created)

\* generate_event_handlers: likewise.
generate_event_handlers(indexer_name, is_filter, c, st) ==
  IF read_abi_source(c) # "Ok"
  THEN [status |-> read_abi_source(c), code |-> <<>>]
  ELSE [status |-> "ok",
        code |-> <<generate_event_handlers_code(
                     indexer_name, c, st,
                     extract_event_names_and_signatures_from_abi(get_abi_items(c, is_filter)))>>]

\* ------------------------------------------------------------------ inputs
\* Leaf fields, and the sibling a composite may carry beside its one
\* expandable child.
XLeaves == {Leaf(n_amount, t_uint256), Leaf(n_tokenId, t_uint256)}
Sibling == Leaf(n_sender, t_address)
Kids(x) == {<<x>>, <<x, Sibling>>, <<Sibling, x>>}

\* A field has components iff its type tag is a record or an array of records.
CompositeHeads == {<<n_data, t_tuple>>, <<n_orderInfo, t_tuple_array>>}

RECURSIVE FieldsAt(_)
\* The fields of composite nesting depth at most d.
FieldsAt(d) ==
  IF d = 0 THEN XLeaves
  ELSE LET S == FieldsAt(d - 1)
       IN S \cup {Composite(h[1], h[2], k) :
                    h \in CompositeHeads, k \in UNION {Kids(x) : x \in S}}

\* One-event schemas whose event has nested inputs.
NestedSchemas ==
  {<<ABIItem(t_event, n_OrderFilled, ins)>> :
     ins \in UNION {Kids(x) : x \in FieldsAt(MaxDepth)}}

TransferEvent ==
  ABIItem(t_event, n_Transfer,
          <<Leaf(n_from, t_address), Leaf(n_to, t_address), Leaf(n_value, t_uint256)>>)
ApprovalEvent ==
  ABIItem(t_event, n_Approval,
          <<Leaf(n_owner, t_address), Leaf(n_spender, t_address), Leaf(n_value, t_uint256)>>)
TransferFunction ==
  ABIItem(t_function, n_transfer, <<Leaf(n_to, t_address), Leaf(n_value, t_uint256)>>)
\* An event without fields.
PausedEvent == ABIItem(t_event, n_Paused, <<>>)
FieldlessSchemas == {<<PausedEvent>>, <<TransferEvent, PausedEvent>>}

\* A second event named Transfer with another parameter list, and the
\* schemas that hold both.
TransferShortEvent ==
  ABIItem(t_event, n_Transfer, <<Leaf(n_to, t_address), Leaf(n_value, t_uint256)>>)
OverloadedSchemas == {<<TransferEvent, TransferShortEvent>>, <<TransferShortEvent, ApprovalEvent>>}

PlainItems == {TransferEvent, ApprovalEvent, TransferFunction}

\* Schemas of up to MaxItems plain items.
PlainSchemas == UNION {[1..n -> PlainItems] : n \in 1..MaxItems}

AllowLists == {None, Some(<<>>), Some(<<n_Transfer>>), Some(<<n_Transfer, n_Approval>>)}

\* struct ContractDetails (manifest) with its IndexingContractSetup
ContractDetails(network, setup) ==
  [network |-> network, setup |-> setup,
   start_block |-> None, end_block |-> None, polling_every |-> None]
ContractDetailsWith(network, setup, start_block, end_block, polling_every) ==
  [network |-> network, setup |-> setup,
   start_block |-> start_block, end_block |-> end_block, polling_every |-> polling_every]
AddressDetails == ContractDetails(n_mainnet, [kind |-> "Address", address |-> a_token])
FilterDetails(event_name) ==
  ContractDetails(n_mainnet,
                  [kind |-> "Filter", event_name |-> event_name,
                   indexed_1 |-> None, indexed_2 |-> None, indexed_3 |-> None])

\* struct Contract (manifest): abi_path is the `abi` attribute, abi the content
\* of the file it names.
\* abi_source is what reading and parsing that file gives: "ok", "unreadable"
\* or "malformed".
Contract(abi, include_events, generate_csv, details) ==
  [name |-> n_ERC20, abi_path |-> p_abi, abi |-> abi, abi_source |-> "ok",
   include_events |-> include_events,
   reorg_safe_distance |-> FALSE, generate_csv |-> generate_csv, details |-> details]

\* Network entries that use every attribute: block range, polling interval,
\* indexed lists and the factory setup; two of them share a network.
RichDetails ==
  {ContractDetailsWith(n_mainnet, [kind |-> "Address", address |-> a_token],
                       Some(5), None, None),
   ContractDetailsWith(n_polygon,
                       [kind |-> "Filter", event_name |-> n_Transfer,
                        indexed_1 |-> Some(<<a_token, a_factory>>),
                        indexed_2 |-> Some(<<>>), indexed_3 |-> None],
                       None, Some(12), Some(250)),
   ContractDetailsWith(n_mainnet,
                       [kind |-> "Factory", address |-> a_factory, event_name |-> n_Approval,
                        parameter_name |-> n_owner, abi |-> p_abi],
                       Some(5), Some(12), Some(1000))}
\* Lists of up to MaxItems network entries, the empty list included.
RichDetailLists == UNION {[1..n -> RichDetails] : n \in 0..MaxItems}

\* The indexing setups: by address, or filter-based on one event.
Indexings ==
  {[is_filter |-> FALSE, details |-> <<AddressDetails>>],
   [is_filter |-> TRUE, details |-> <<FilterDetails(n_Transfer)>>],
   [is_filter |-> TRUE, details |-> <<AddressDetails, FilterDetails(n_Approval)>>]}

\* struct Storage (manifest): the relational flag and the flat-file details.
Storage(postgres, csv) == [postgres |-> postgres, csv |-> csv]
Storages == {Storage(pg, csv) : pg \in BOOLEAN, csv \in {None, Some([path |-> p_csv])}}

DefaultStorage == Storage(TRUE, Some([path |-> p_csv]))

\* The tags of the leaf types the sinks tell apart: fixed- and variable-width
\* bytes, arrays of each, arrays of non-bytes types, and non-bytes scalars.
TypedTags ==
  {t_bytes32, t_bytes, t_bytes32_array, t_bytes_array, t_address_array, t_uint256_array,
   t_address, t_uint256, t_bool}
\* One-event schemas with one field of each tag, at the top level or nested
\* in a record.
TypedSchemas ==
  {<<ABIItem(t_event, n_OrderFilled, <<Leaf(n_value, t)>>)>> : t \in TypedTags}
  \cup {<<ABIItem(t_event, n_OrderFilled,
                  <<Composite(n_data, t_tuple, <<Leaf(n_value, t), Sibling>>)>>)>> :
          t \in {t_bytes32, t_bytes_array}}
TypedInputs ==
  {[contract |-> Contract(abi, None, TRUE, <<AddressDetails>>), is_filter |-> FALSE,
    storage |-> DefaultStorage] : abi \in TypedSchemas}

\* The type-mapping table is keyed by tag and holds a wrapper for some tags:
\* for address and uint256 only, or for every tag above.
BaseWrappedTags == {t_address, t_uint256}
WrapperTables == {BaseWrappedTags, TypedTags}

\* The generator's inputs: nested one-event schemas, schemas with a
\* field-less event and schemas with an overloaded event name under the
\* default configuration; plain schemas under
\* every allow-list and indexing setup; plain schemas under every storage
\* configuration; one event under every list of network entries; a schema
\* source that cannot be read or parsed under every storage configuration.
Inputs ==
  {[contract |-> Contract(abi, None, TRUE, <<AddressDetails>>), is_filter |-> FALSE,
    storage |-> DefaultStorage] :
     abi \in NestedSchemas \cup FieldlessSchemas \cup OverloadedSchemas}
  \cup
  {[contract |-> Contract(abi, allow, TRUE, ix.details), is_filter |-> ix.is_filter,
    storage |-> DefaultStorage] :
     abi \in PlainSchemas, allow \in AllowLists, ix \in Indexings}
  \cup
  {[contract |-> Contract(abi, None, csv, <<AddressDetails>>), is_filter |-> FALSE,
    storage |-> st] :
     abi \in PlainSchemas, csv \in BOOLEAN, st \in Storages}
  \cup
  {[contract |-> [Contract(<<TransferEvent>>, None, TRUE, details)
                    EXCEPT !.reorg_safe_distance = reorg],
    is_filter |-> FALSE, storage |-> DefaultStorage] :
     details \in RichDetailLists, reorg \in BOOLEAN}
  \cup
  {[contract |-> [Contract(<<TransferEvent>>, None, csv, <<AddressDetails>>)
                    EXCEPT !.abi_source = source],
    is_filter |-> FALSE, storage |-> st] :
     source \in {"unreadable", "malformed"}, csv \in BOOLEAN, st \in Storages}

\* ------------------------------------------------------------------- state
VARIABLES
  contract,     \* the Contract given to the generator
  storage,      \* the Storage configuration given to the generator
  is_filter,    \* whether the contract's indexing setup is filter-based
  pc,           \* which operation ran last
  abi_items,    \* result of read_abi_items or get_abi_items
  event_info,   \* result of extract_event_names_and_signatures_from_abi
  properties,   \* result of generate_abi_name_properties, with its arguments
  bindings,     \* outcome of generate_event_bindings
  handlers,     \* outcome of generate_event_handlers
  fs_dirs,      \* the directories that exist on the file system
  fs_files,     \* the flat files that exist, each with its lines
  constructed,  \* the events whose generated handler was constructed in this run
  last_call,    \* the last run of a generated `call`: its batch and its outcome
  first_pass    \* what the first generation pass left, once a second one ran

NotRun == [status |-> "none", code |-> <<>>]
vars == <<contract, storage, is_filter, wrapped_tags, pc, abi_items, event_info, properties,
          bindings, handlers, fs_dirs, fs_files, constructed, last_call, first_pass>>
runtime_vars == <<fs_files, constructed, last_call>>
NoCall == [event |-> 0, events |-> <<>>, callback |-> <<>>, panic |-> FALSE]
NoPass == [bindings |-> NotRun, handlers |-> NotRun, fs_dirs |-> {}]
NoFiles == [path \in {} |-> <<>>]

NoProperties == [kind |-> "", event |-> 0, result |-> <<>>]

Init ==
  /\ \/ \E inp \in Inputs :
          /\ contract = inp.contract /\ storage = inp.storage /\ is_filter = inp.is_filter
          /\ wrapped_tags = BaseWrappedTags
     \/ \E inp \in TypedInputs, table \in WrapperTables :
          /\ contract = inp.contract /\ storage = inp.storage /\ is_filter = inp.is_filter
          /\ wrapped_tags = table
  /\ pc = "idle"
  /\ abi_items = <<>>
  /\ event_info = <<>>
  /\ properties = NoProperties
  /\ bindings = NotRun
  /\ handlers = NotRun
  /\ fs_dirs = {}
  /\ fs_files = NoFiles
  /\ constructed = {}
  /\ last_call = NoCall
  /\ first_pass = NoPass

\* pub fn read_abi_items(contract)
ReadAbiItems ==
  /\ pc = "idle"
  /\ IF read_abi_source(contract) = "Ok"
     THEN abi_items' = read_abi_items(contract) /\ pc' = "read"
     ELSE abi_items' = <<>> /\ pc' = "failed"
  /\ UNCHANGED <<contract, storage, is_filter, wrapped_tags, event_info, properties, bindings, handlers, fs_dirs>>
  /\ UNCHANGED <<runtime_vars, first_pass>>

\* fn get_abi_items(contract, is_filter)
GetAbiItems ==
  /\ pc = "idle"
  /\ IF read_abi_source(contract) = "Ok"
     THEN abi_items' = get_abi_items(contract, is_filter) /\ pc' = "narrowed"
     ELSE abi_items' = <<>> /\ pc' = "failed"
  /\ UNCHANGED <<contract, storage, is_filter, wrapped_tags, event_info, properties, bindings, handlers, fs_dirs>>
  /\ UNCHANGED <<runtime_vars, first_pass>>

\* pub fn extract_event_names_and_signatures_from_abi(abi_json)
ExtractEvents ==
  /\ pc = "read"
  /\ event_info' = extract_event_names_and_signatures_from_abi(abi_items)
  /\ pc' = "extracted"
  /\ UNCHANGED <<contract, storage, is_filter, wrapped_tags, abi_items, properties, bindings, handlers, fs_dirs>>
  /\ UNCHANGED <<runtime_vars, first_pass>>

\* pub fn generate_abi_name_properties(&event.inputs, properties_type, None)
GenerateAbiNameProperties ==
  /\ pc = "extracted"
  /\ \E e \in DOMAIN event_info, kind \in GenerateAbiPropertiesType :
       properties' = [kind |-> kind, event |-> e,
                      result |-> generate_abi_name_properties(event_info[e].inputs, kind, None)]
  /\ pc' = "projected"
  /\ UNCHANGED <<contract, storage, is_filter, wrapped_tags, abi_items, event_info, bindings, handlers, fs_dirs>>
  /\ UNCHANGED <<runtime_vars, first_pass>>

\* pub fn generate_event_bindings(indexer_name, contract, is_filter, storage):
\* load and narrow the schema, derive the events, assemble the artifact.  The
\* directory creation of the flat-file path succeeds or fails.
GenerateEventBindings ==
  /\ pc = "idle"
  /\ \E created \in create_dir_all_outcomes(contract, storage, fs_dirs) :
       LET r == generate_event_bindings(n_MyIndexer, contract, is_filter, storage, created)
       IN /\ bindings' = [status |-> r.status, code |-> r.code]
          /\ fs_dirs' = fs_dirs \cup r.dirs
  /\ pc' = "bindings"
  /\ UNCHANGED <<contract, storage, is_filter, wrapped_tags, abi_items, event_info, properties, handlers>>
  /\ UNCHANGED <<runtime_vars, first_pass>>

\* pub fn generate_event_handlers(indexer_name, is_filter, contract, storage)
GenerateEventHandlers ==
  /\ pc \in {"idle", "bindings"}
  /\ handlers' = generate_event_handlers(n_MyIndexer, is_filter, contract, storage)
  /\ pc' = "handlers"
  /\ UNCHANGED <<contract, storage, is_filter, wrapped_tags, abi_items, event_info, properties, bindings, fs_dirs>>
  /\ UNCHANGED <<runtime_vars, first_pass>>

\* The generator is run again on the same contract and configuration:
\* generate_event_bindings, then generate_event_handlers.
Regenerate ==
  /\ pc = "handlers"
  /\ bindings.status # "none"
  /\ first_pass' = [bindings |-> bindings, handlers |-> handlers, fs_dirs |-> fs_dirs]
  /\ \E created \in create_dir_all_outcomes(contract, storage, fs_dirs) :
       LET r == generate_event_bindings(n_MyIndexer, contract, is_filter, storage, created)
       IN /\ bindings' = [status |-> r.status, code |-> r.code]
          /\ fs_dirs' = fs_dirs \cup r.dirs
  /\ handlers' = generate_event_handlers(n_MyIndexer, is_filter, contract, storage)
  /\ pc' = "regenerated"
  /\ UNCHANGED <<contract, storage, is_filter, wrapped_tags, abi_items, event_info, properties, runtime_vars>>

Next ==
  \/ ReadAbiItems
  \/ GetAbiItems
  \/ ExtractEvents
  \/ GenerateAbiNameProperties
  \/ GenerateEventBindings
  \/ GenerateEventHandlers
  \/ Regenerate

Spec == Init /\ [][Next]_vars

\* ------------------------------------------ the generated code at run time
\* The text generate_csv_instance put into the constructor of event e, the
\* path its appender is built on and the path its header guard tests.
CsvGeneratorOf(e) ==
  LET text == Split(bindings.code[1].event_callback_structs, "\n")[e]
  IN SubSeq(text, FirstAt(text, "let csv = AsyncCsvAppender::new(\"", 1),
            FirstAt(text, "Self { callback, context: Arc::new(EventContext {", 1) - 1)
AppenderPath(e) ==
  Between(CsvGeneratorOf(e), "let csv = AsyncCsvAppender::new(\"", "\".to_string());")
HeaderGuarded(e) ==
  LET text == CsvGeneratorOf(e)
  IN \E i \in DOMAIN text : text[i] = "csv.append_header(vec!["
HeaderGuardPath(e) == Between(CsvGeneratorOf(e), "if !Path::new(\"", "\").exists() {")
RowAppended(e) ==
  LET text == handlers.code[1].handlers[e].csv_write
  IN \E i \in DOMAIN text : text[i] = "context.csv.append(vec!["

\* Path::exists
path_exists(path) == path \in DOMAIN fs_files \/ path \in fs_dirs

\* AsyncCsvAppender::append / append_header: the line is appended to the
\* file at the appender's path, which is created when it is missing.
append_line(files, path, line) ==
  IF path \in DOMAIN files
  THEN [files EXCEPT ![path] = Append(@, line)]
  ELSE [q \in DOMAIN files \cup {path} |-> IF q = path THEN <<line>> ELSE files[q]]

Generated == pc = "handlers" /\ bindings.status = "ok" /\ handlers.status = "ok"
GeneratedEvents ==
  DOMAIN extract_event_names_and_signatures_from_abi(get_abi_items(contract, is_filter))

\* <Event>Event::new of the generated bindings: the appender is built and,
\* where the guard was generated and its path does not exist, the header
\* row is written.
NewEventHandler ==
  /\ Generated
  /\ ~last_call.panic
  /\ \E e \in GeneratedEvents :
       /\ constructed' = constructed \cup {e}
       /\ fs_files' = IF HeaderGuarded(e) /\ ~path_exists(HeaderGuardPath(e))
                      THEN append_line(fs_files, AppenderPath(e), "header")
                      ELSE fs_files
  /\ UNCHANGED <<contract, storage, is_filter, wrapped_tags, pc, abi_items, event_info, properties,
                 bindings, handlers, fs_dirs, last_call, first_pass>>

\* The generated handler of a constructed event runs on one occurrence: the
\* row append of the handlers artifact writes one row.
HandleEvent ==
  /\ Generated
  /\ ~last_call.panic
  /\ \E e \in constructed :
       /\ RowAppended(e)
       /\ LET path == AppenderPath(e)
          IN /\ path \notin fs_dirs
             /\ path \in DOMAIN fs_files =>
                  Cardinality({i \in DOMAIN fs_files[path] : fs_files[path][i] = "row"}) < MaxRows
             /\ fs_files' = append_line(fs_files, path, "row")
  /\ UNCHANGED <<contract, storage, is_filter, wrapped_tags, pc, abi_items, event_info, properties,
                 bindings, handlers, fs_dirs, constructed, last_call, first_pass>>

\* The text generate_event_callback_structs_code emitted for event e, the
\* type its `call` downcasts each item to and the record it builds.
CallbackStructOf(e) == Split(bindings.code[1].event_callback_structs, "\n")[e]
DowncastType(e) ==
  Between(CallbackStructOf(e),
          "> = events.into_iter().filter_map(|item| item.decoded_data.downcast::<",
          ">().ok().map(|arc| ")
ResultStruct(e) ==
  Between(CallbackStructOf(e), ">().ok().map(|arc| ",
          " { event_data: (*arc).clone(), tx_information: item.tx_information })).collect();")
LengthChecked(e) ==
  LET text == CallbackStructOf(e)
  IN \E i \in DOMAIN text :
       text[i]
         = "if result.len() == events_len { (self.callback)(&result, self.context.clone()).await; } else { panic!(\""

\* What the emitted decoder arms store in an item: the data record of the
\* arm's event on Ok, the decode error on Err.
AbiError == <<"AbiError">>
DecodedTypes ==
  LET arms == Split(bindings.code[1].decoder_match_arms, "\n")
  IN {Between(arms[k],
              "(_) => { Arc::new(move |topics: Vec<H256>, data: Bytes| { match contract.decode_event::<",
              "Data>(\"") \o <<"Data">> : k \in DOMAIN arms}
       \cup {AbiError}

\* Batches of up to MaxRows event results; tx_information tells the items apart.
Batches ==
  UNION {{[i \in 1..n |-> [decoded_data |-> types[i], tx_information |-> i]] :
            types \in [1..n -> DecodedTypes]} : n \in 0..MaxRows}

\* The emitted `call` on a batch, given the type it downcasts to, the record
\* it builds and whether it compares the lengths: filter_map keeps the items
\* whose decoded value downcasts, the callback gets them when none was
\* dropped, the call panics otherwise.
emitted_call(e, events, downcast, struct, checked) ==
  LET kept == SelectSeq(events, LAMBDA item : item.decoded_data = downcast)
      result == [k \in DOMAIN kept |->
                   [struct |-> struct, event_data |-> kept[k].decoded_data,
                    tx_information |-> kept[k].tx_information]]
  IN IF checked /\ Len(result) = Len(events)
     THEN [event |-> e, events |-> events, callback |-> <<result>>, panic |-> FALSE]
     ELSE [event |-> e, events |-> events, callback |-> <<>>, panic |-> checked]

\* <Event>Event::call of a constructed event runs on a batch.  A panic ends
\* the program's work: nothing runs after it.
Call ==
  /\ Generated
  /\ ~last_call.panic
  /\ LET batches == Batches
     IN \E e \in constructed :
          LET downcast == DowncastType(e)
              struct == ResultStruct(e)
              checked == LengthChecked(e)
          IN \E events \in batches :
               last_call' = emitted_call(e, events, downcast, struct, checked)
  /\ UNCHANGED <<contract, storage, is_filter, wrapped_tags, pc, abi_items, event_info, properties,
                 bindings, handlers, fs_dirs, fs_files, constructed, first_pass>>

\* The program ends; its files stay, the record of its calls does not.
Restart ==
  /\ Generated
  /\ constructed # {}
  /\ constructed' = {}
  /\ last_call' = NoCall
  /\ UNCHANGED <<contract, storage, is_filter, wrapped_tags, pc, abi_items, event_info, properties,
                 bindings, handlers, fs_dirs, fs_files, first_pass>>

RuntimeNext ==
  \/ GenerateEventBindings
  \/ GenerateEventHandlers
  \/ NewEventHandler
  \/ HandleEvent
  \/ Call
  \/ Restart

\* Generation followed by runs of the generated code, over one- and
\* two-event schemas under every storage configuration.
RuntimeInit ==
  /\ \E abi \in {<<TransferEvent>>, <<TransferEvent, ApprovalEvent>>},
        csv \in BOOLEAN, st \in Storages :
       /\ contract = Contract(abi, None, csv, <<AddressDetails>>)
       /\ storage = st
  /\ is_filter = FALSE
  /\ wrapped_tags = BaseWrappedTags
  /\ pc = "idle"
  /\ abi_items = <<>>
  /\ event_info = <<>>
  /\ properties = NoProperties
  /\ bindings = NotRun
  /\ handlers = NotRun
  /\ fs_dirs = {}
  /\ fs_files = NoFiles
  /\ constructed = {}
  /\ last_call = NoCall
  /\ first_pass = NoPass

RuntimeSpec == RuntimeInit /\ [][RuntimeNext]_vars

\* ------------------------------------------------------ property vocabulary
Range(s) == {s[i] : i \in DOMAIN s}
StartsWith(s, pre) == Len(pre) <= Len(s) /\ SubSeq(s, 1, Len(pre)) = pre
EndsWith(s, suf) == Len(suf) <= Len(s) /\ SubSeq(s, Len(s) - Len(suf) + 1, Len(s)) = suf
HasSub(s, sub) ==
  \E i \in 1..(Len(s) + 1) : i + Len(sub) - 1 <= Len(s) /\ SubSeq(s, i, i + Len(sub) - 1) = sub
Strip(s, drop) == SelectSeq(s, LAMBDA c : c \notin drop)
Quote == "\""

RECURSIVE LeavesOf(_, _)
\* The fields without components reachable from inputs, depth first, each
\* with the names of its composite ancestors, outermost first.
LeavesOf(inputs, ancestors) ==
  IF inputs = <<>> THEN <<>>
  ELSE (IF IsSome(inputs[1].components)
        THEN LeavesOf(Unwrap(inputs[1].components), Append(ancestors, inputs[1].name))
        ELSE <<[field |-> inputs[1], ancestors |-> ancestors]>>)
       \o LeavesOf(Tail(inputs), ancestors)

RECURSIVE LeafCount(_)
LeafCount(inputs) ==
  IF inputs = <<>> THEN 0
  ELSE (IF IsSome(inputs[1].components) THEN LeafCount(Unwrap(inputs[1].components)) ELSE 1)
       + LeafCount(Tail(inputs))

RECURSIVE NestingDepth(_)
NestingDepth(inputs) ==
  IF inputs = <<>> THEN 0
  ELSE LET here == IF IsSome(inputs[1].components)
                   THEN 1 + NestingDepth(Unwrap(inputs[1].components)) ELSE 0
           rest == NestingDepth(Tail(inputs))
       IN IF here > rest THEN here ELSE rest

\* The event whose inputs were projected, once a projection exists.
Projected == pc = "projected"
ProjectedInputs == event_info[properties.event].inputs
ProjectedLeaves == LeavesOf(ProjectedInputs, <<>>)
ColumnKinds == {"PostgresColumnsNamesOnly", "CsvHeaderNames"}
DataInputs == <<Composite(n_data, t_tuple, <<Leaf(n_amount, t_uint256), Leaf(n_sender, t_address)>>)>>

\* ------------------------------------------------------------------ claims

RECURSIVE SignatureByChildren(_)
SignatureByChildren(input) ==
  IF IsSome(input.components)
  THEN <<"(">> \o Join(Map(SignatureByChildren, Unwrap(input.components)), <<",">>) \o <<")">>
  ELSE input.type_

\* C1 (as stated): every event's signature renders each field that has child
\* fields as its parenthesised comma-joined children, any other field as its
\* type tag, joined by single commas; Transfer(from,to,value) gives
\* "Transfer(address,address,uint256)".
C1_SignatureFieldByField ==
  \A e \in DOMAIN event_info :
    /\ event_info[e].signature = Join(Map(SignatureByChildren, event_info[e].inputs), <<",">>)
    /\ event_info[e].inputs = TransferEvent.inputs /\ event_info[e].name = n_Transfer
         => Str(event_info[e].name \o <<"(">> \o event_info[e].signature \o <<")">>)
              = "Transfer(address,address,uint256)"

RECURSIVE StandardParamType(_)
\* The standard event-topic rendering: a record is "(" children ")" followed
\* by whatever array suffix follows the word tuple in its type tag.
StandardParamType(input) ==
  IF IsSome(input.components)
  THEN <<"(">> \o Join(Map(StandardParamType, Unwrap(input.components)), <<",">>) \o <<")">>
         \o SubSeq(input.type_, Len(t_tuple) + 1, Len(input.type_))
  ELSE input.type_

\* C2 (as stated): every composite field, arrays of records included, is
\* rendered as its parenthesised children followed by its array suffix, and
\* the word "tuple" appears in no signature.
C2_StandardTopicDerivation ==
  \A e \in DOMAIN event_info :
    /\ event_info[e].signature = Join(Map(StandardParamType, event_info[e].inputs), <<",">>)
    /\ ~HasSub(event_info[e].signature, t_tuple)

AllowedEvent(item) ==
  item.type_ = t_event /\ item.name \in Range(Unwrap(contract.include_events))

\* C3: read_abi_items keeps, in schema order, exactly the non-events and the
\* allow-listed events (everything without an allow-list), so the number of
\* EventInfos is the number of allow-listed schema events.
C3_AllowListFilter ==
  LET schema == contract.abi
      kept == {i \in DOMAIN schema :
                 \/ ~IsSome(contract.include_events)
                 \/ schema[i].type_ # t_event
                 \/ AllowedEvent(schema[i])}
      rank(i) == Cardinality({j \in kept : j <= i})
  IN /\ pc \in {"read", "extracted", "projected"} =>
          /\ Len(abi_items) = Cardinality(kept)
          /\ \A i \in kept : abi_items[rank(i)] = schema[i]
          /\ ~IsSome(contract.include_events) => abi_items = schema
     /\ pc \in {"extracted", "projected"} /\ IsSome(contract.include_events) =>
          Len(event_info) = Cardinality({i \in DOMAIN schema : AllowedEvent(schema[i])})

C3_Witness ==
  /\ pc = "extracted"
  /\ contract.abi = <<TransferEvent, ApprovalEvent>>
  /\ contract.include_events = Some(<<n_Transfer>>)
  /\ Len(event_info) = 1
  /\ event_info[1].name = n_Transfer

\* C4: every projection kind yields exactly one entry per field without
\* components, in depth-first schema order; composites add no entry.
C4_OneEntryPerLeaf ==
  Projected =>
    /\ Len(properties.result) = LeafCount(ProjectedInputs)
    /\ Len(properties.result) = Len(ProjectedLeaves)
    /\ \A k \in DOMAIN properties.result :
         /\ properties.result[k].abi_type = ProjectedLeaves[k].field.type_
         /\ HasSub(properties.result[k].value, camel_to_snake(ProjectedLeaves[k].field.name))

C4_Witness ==
  /\ Projected
  /\ properties.kind = "Object"
  /\ NestingDepth(ProjectedInputs) = 2
  /\ Len(properties.result) = 3

\* The name the claim gives a leaf: all ancestors and the leaf, converted,
\* joined by the separator.
FullPath(leaf, sep) == Join(Map(camel_to_snake, Append(leaf.ancestors, leaf.field.name)), <<sep>>)

\* C5 (as stated): a leaf's name is prefixed by the converted names of ALL its
\* composite ancestors, outermost first, joined by the projection's separator.
C5_FullAncestorPrefix ==
  Projected =>
    \A k \in DOMAIN properties.result :
      LET v == properties.result[k].value
          leaf == ProjectedLeaves[k]
      IN CASE properties.kind = "Object" -> v = FullPath(leaf, ".")
           [] properties.kind \in ColumnKinds -> v = <<Quote>> \o FullPath(leaf, "_") \o <<Quote>>
           [] OTHER -> StartsWith(v, <<Quote>> \o FullPath(leaf, "_") \o <<Quote>>)

\* C6: a typed-column entry is the double-quoted snake_case column name, one
\* space, and the storage type of the leaf's type tag; data{amount:uint256,
\* sender:address} yields "data_amount" and "data_sender" with their types.
C6_TypedColumn ==
  Projected /\ properties.kind = "PostgresWithDataTypes" =>
    /\ \A k \in DOMAIN properties.result :
         LET v == properties.result[k].value
             leaf == ProjectedLeaves[k].field
             ty == solidity_type_to_db_type(leaf.type_)
             n == Len(v) - Len(ty) - 3
             col == SubSeq(v, 2, n + 1)
         IN /\ n >= 1
            /\ v[1] = Quote /\ v[n + 2] = Quote /\ v[n + 3] = " "
            /\ SubSeq(v, n + 4, Len(v)) = ty
            /\ \A i \in DOMAIN col : ~is_uppercase(col[i]) /\ col[i] # Quote /\ col[i] # " "
            /\ EndsWith(col, camel_to_snake(leaf.name))
    /\ ProjectedInputs = DataInputs =>
         Map(Str, [k \in DOMAIN properties.result |-> properties.result[k].value])
           = <<"\"data_amount\" VARCHAR(78)", "\"data_sender\" CHAR(42)">>

C6_Witness ==
  /\ Projected
  /\ properties.kind = "PostgresWithDataTypes"
  /\ ProjectedInputs = DataInputs
  /\ Len(properties.result) = 2

\* C7 (as stated): the object-path projection uses a field's name as-is while
\* the column/header projections convert it to snake_case.
C7_ObjectPathAsIs ==
  Projected =>
    \A k \in DOMAIN properties.result :
      LET v == properties.result[k].value
          name == ProjectedLeaves[k].field.name
      IN /\ properties.kind = "Object" => EndsWith(v, name)
         /\ properties.kind \in ColumnKinds => EndsWith(v, camel_to_snake(name) \o <<Quote>>)

\* C7 (amended): the object-path projection converts a field's name (leaf or
\* parent) to snake_case exactly as the column/header projections do; tokenId
\* gives token_id as access path and "token_id" as bare name.
C7_ObjectPathSnakeCase ==
  Projected =>
    \A k \in DOMAIN properties.result :
      LET v == properties.result[k].value
          leaf == ProjectedLeaves[k]
          name == leaf.field.name
          parent == IF leaf.ancestors = <<>> THEN <<>>
                    ELSE camel_to_snake(leaf.ancestors[Len(leaf.ancestors)])
      IN /\ properties.kind = "Object" =>
              /\ v = (IF parent = <<>> THEN <<>> ELSE parent \o <<".">>) \o camel_to_snake(name)
              /\ \A i \in DOMAIN v : ~is_uppercase(v[i])
              /\ name = n_tokenId /\ parent = <<>> => Str(v) = "token_id"
         /\ properties.kind \in ColumnKinds =>
              /\ v = <<Quote>> \o (IF parent = <<>> THEN <<>> ELSE parent \o <<"_">>)
                       \o camel_to_snake(name) \o <<Quote>>
              /\ name = n_tokenId /\ parent = <<>> => Str(v) = "\"token_id\""

C7_Witness ==
  /\ Projected
  /\ properties.kind = "Object"
  /\ \E k \in DOMAIN properties.result :
       /\ ProjectedLeaves[k].field.name = n_tokenId
       /\ ProjectedLeaves[k].ancestors = <<n_orderInfo>>
       /\ Str(properties.result[k].value) = "order_info.token_id"

\* The two name sets of the projected event: header names from the state when
\* the header projection ran, object paths from the state when that one ran.
ValuesOf(kind) ==
  IF properties.kind = kind
  THEN {properties.result[k].value : k \in DOMAIN properties.result}
  ELSE LET r == generate_abi_name_properties(ProjectedInputs, kind, None)
       IN {r[k].value : k \in DOMAIN r}

HasToken(text, token) == \E i \in DOMAIN text : text[i] = token

\* The events a generation pass works on, and the artifacts it produced.
WorkingEvents == extract_event_names_and_signatures_from_abi(get_abi_items(contract, is_filter))
BindingsDone == bindings.status = "ok"
HandlersDone == handlers.status = "ok"
BindingsCode == bindings.code[1]
HandlersCode == handlers.code[1]

HexValue(c) == (CHOOSE i \in DOMAIN HexDigits : HexDigits[i] = c) - 1

\* C9: each arm of the topic_id lookup carries "0x" and exactly 64 lowercase
\* hex characters: the two-digit rendering of each of the 32 digest bytes of
\* "<EventName>(<signature>)" of the arm's own event.
C9_TopicIdArm ==
  BindingsDone =>
    LET arms == Split(BindingsCode.topic_ids_match_arms, "\n")
    IN /\ Len(arms) = Len(WorkingEvents)
       /\ \A e \in DOMAIN arms :
            LET info == WorkingEvents[e]
                head == generate_event_type_name(contract.name) \o <<"::">> \o info.name
                          \o <<"(_) => \"0x">>
                hex == SubSeq(arms[e], Len(head) + 1, Len(arms[e]) - 1)
                digest == keccak256(info.name \o <<"(">> \o info.signature \o <<")">>)
            IN /\ StartsWith(arms[e], head)
               /\ arms[e][Len(arms[e])] = "\","
               /\ Len(hex) = 64
               /\ \A i \in DOMAIN hex : hex[i] \in Range(HexDigits)
               /\ Len(digest) = 32
               /\ \A k \in 1..32 :
                    16 * HexValue(hex[2 * k - 1]) + HexValue(hex[2 * k]) = digest[k]

C9_Witness ==
  /\ BindingsDone
  /\ Len(WorkingEvents) = 2
  /\ WorkingEvents[1].name # WorkingEvents[2].name
  /\ \E k \in 1..32 :
       keccak256(WorkingEvents[1].name \o <<"(">> \o WorkingEvents[1].signature \o <<")">>)[k] < 16
  /\ Len(Split(BindingsCode.topic_ids_match_arms, "\n")) = 2

InsertEmitted(e) == HasToken(HandlersCode.handlers[e].postgres_write, "context.database.execute(\"")
RowEmitted(e) == HasToken(HandlersCode.handlers[e].csv_write, "context.csv.append(vec![")
HeaderEmitted(e) ==
  HasToken(Split(BindingsCode.event_callback_structs, "\n")[e], "csv.append_header(vec![")
ClientEmitted ==
  \/ HasToken(BindingsCode.client_import, "PostgresClient,")
  \/ HasToken(BindingsCode.event_context_database, "pub database: Arc<PostgresClient>,")
  \/ HasToken(BindingsCode.event_callback_structs,
              "database: Arc::new(PostgresClient::new().await.unwrap()),")

\* C10 (as stated): with relational storage off and flat-file storage on, no
\* insert statement and no database client is emitted while the header write
\* and the row append are; with relational on and flat-file off only the
\* insert path is; each path follows its own storage flag alone.
C10_PathsFollowStorageFlags ==
  BindingsDone /\ HandlersDone =>
    /\ ClientEmitted <=> postgres_enabled(storage)
    /\ \A e \in DOMAIN WorkingEvents :
         /\ InsertEmitted(e) <=> postgres_enabled(storage)
         /\ RowEmitted(e) <=> csv_enabled(storage)
         /\ HeaderEmitted(e) <=> csv_enabled(storage)

IdentChars == Range(UpperChars) \cup Range(LowerChars) \cup Range(DecimalDigits) \cup {"_"}

\* The identifier that starts at position i of a text: the longest run of
\* identifier characters from there.
IdentAt(text, i) ==
  LET stops == {j \in i..Len(text) : text[j] \notin IdentChars}
      end == IF stops = {} THEN Len(text) + 1 ELSE CHOOSE j \in stops : \A k \in stops : j <= k
  IN SubSeq(text, i, end - 1)

\* The identifiers that directly follow an occurrence of a token.
IdentsAfter(text, token) == {IdentAt(text, i + 1) : i \in {j \in DOMAIN text : text[j] = token}}

\* The events named by each construct of the binding artifact.
StructDataEvents == IdentsAfter(BindingsCode.structs, "pub type ")
StructResultEvents == IdentsAfter(BindingsCode.structs, "#[derive(Debug)] pub struct ")
EnumEvents == {IdentAt(line, 1) : line \in Range(Split(BindingsCode.event_enums, "\n"))}
ArmEvents(arms) == UNION {IdentsAfter(line, "::") : line \in Range(Split(arms, "\n"))}
WorkingEventNames == {WorkingEvents[e].name : e \in DOMAIN WorkingEvents}

\* C11 (as stated): the events with a result/data record pair, the variants
\* of the dispatch type and the arms of the topic_id, event_name, decoder and
\* register lookups are all exactly the working event set.
C11_ConstructsInLockStep ==
  BindingsDone =>
    /\ StructDataEvents = WorkingEventNames
    /\ StructResultEvents = WorkingEventNames
    /\ EnumEvents = WorkingEventNames
    /\ ArmEvents(BindingsCode.topic_ids_match_arms) = WorkingEventNames
    /\ ArmEvents(BindingsCode.event_names_match_arms) = WorkingEventNames
    /\ ArmEvents(BindingsCode.decoder_match_arms) = WorkingEventNames
    /\ ArmEvents(BindingsCode.register_match_arms) = WorkingEventNames

\* The part of C11 the code keeps: the dispatch type and the four lookups
\* name exactly the working events, and every working event has its records.
C11_DispatchInLockStep ==
  BindingsDone =>
    /\ WorkingEventNames \subseteq StructDataEvents
    /\ StructDataEvents = StructResultEvents
    /\ EnumEvents = WorkingEventNames
    /\ ArmEvents(BindingsCode.topic_ids_match_arms) = WorkingEventNames
    /\ ArmEvents(BindingsCode.event_names_match_arms) = WorkingEventNames
    /\ ArmEvents(BindingsCode.decoder_match_arms) = WorkingEventNames
    /\ ArmEvents(BindingsCode.register_match_arms) = WorkingEventNames

\* The event names of the contract's Filter setups.
FilterEventNames ==
  {contract.details[i].setup.event_name :
     i \in {j \in DOMAIN contract.details : contract.details[j].setup.kind = "Filter"}}

\* An item passes the allow-list stage.
PassesAllowList(item) ==
  \/ ~IsSome(contract.include_events)
  \/ item.type_ # t_event
  \/ item.name \in Range(Unwrap(contract.include_events))

\* C12: with a filter-based setup the working set is, in schema order,
\* exactly the items that are events, are named by a Filter setup of the
\* contract and passed the allow-list; no non-event item remains.
C12_FilterNarrowing ==
  pc = "narrowed" /\ is_filter =>
    LET schema == contract.abi
        kept == {i \in DOMAIN schema :
                   /\ schema[i].type_ = t_event
                   /\ schema[i].name \in FilterEventNames
                   /\ PassesAllowList(schema[i])}
        rank(i) == Cardinality({j \in kept : j <= i})
    IN /\ Len(abi_items) = Cardinality(kept)
       /\ \A i \in kept : abi_items[rank(i)] = schema[i]
       /\ \A k \in DOMAIN abi_items :
            /\ abi_items[k].type_ = t_event
            /\ abi_items[k].name \in FilterEventNames
            /\ PassesAllowList(abi_items[k])

\* A filter-based pass over a schema with a function and a filtered event.
C12_Witness ==
  /\ pc = "narrowed"
  /\ is_filter
  /\ \E i \in DOMAIN contract.abi : contract.abi[i].type_ = t_function
  /\ \E i \in DOMAIN contract.abi :
       contract.abi[i].type_ = t_event /\ contract.abi[i].name \in FilterEventNames
  /\ Len(abi_items) = 1

\* The relational write of event e and the parts of its insert statement:
\* the column list, the placeholders and the value expressions.
PostgresWrite(e) == HandlersCode.handlers[e].postgres_write
InsertColumns(e) ==
  <<"contract_address">>
    \o [k \in DOMAIN Split(Between(PostgresWrite(e), " (contract_address, ", ") "), ", ") |->
          Str(Strip(Split(Between(PostgresWrite(e), " (contract_address, ", ") "), ", ")[k], {"\\"}))]
InsertPlaceholders(e) ==
  LET parts == Split(Between(PostgresWrite(e), "VALUES(", ")"), ", ")
  IN [k \in DOMAIN parts |-> Str(parts[k])]
ValueStarts ==
  {"&[&EthereumSqlTypeWrapper::Address(&result.tx_information.address),",
   "&", "&result.event_data.",
   "&EthereumSqlTypeWrapper::H256(&result.tx_information.transaction_hash.unwrap()),",
   "&EthereumSqlTypeWrapper::U64(&result.tx_information.block_number.unwrap()),",
   "&EthereumSqlTypeWrapper::H256(&result.tx_information.block_hash.unwrap())"}
InsertValues(e) ==
  SelectSeq(SubSeq(PostgresWrite(e), FirstAt(PostgresWrite(e), "\",", 1) + 1, Len(PostgresWrite(e))),
            LAMBDA tok : tok \in ValueStarts)

\* The flattened columns of an event: one quoted name per leaf.
FlattenedColumns(info) ==
  LET r == generate_abi_name_properties(info.inputs, "PostgresColumnsNamesOnly", None)
  IN [k \in DOMAIN r |-> Str(r[k].value)]

InsertShape(e) ==
  LET cols == InsertColumns(e)
      n == LeafCount(WorkingEvents[e].inputs)
  IN /\ Len(cols) = n + 4
     /\ cols[1] = "contract_address"
     /\ SubSeq(cols, 2, n + 1) = FlattenedColumns(WorkingEvents[e])
     /\ SubSeq(cols, Len(cols) - 2, Len(cols)) = <<"\"tx_hash\"", "\"block_number\"", "\"block_hash\"">>
     /\ InsertPlaceholders(e) = [k \in 1..Len(cols) |-> Str(<<"$">> \o to_string(k))]
     /\ Len(InsertValues(e)) = Len(cols)

\* C13 (as stated): for every event the insert statement's column list is
\* contract_address, the flattened event columns, tx_hash, block_number,
\* block_hash, and the numbers of columns, of positional placeholders and of
\* value expressions are equal.
C13_InsertCountsAgree ==
  HandlersDone /\ postgres_enabled(storage) =>
    \A e \in DOMAIN WorkingEvents : InsertShape(e)

\* What holds of the code: the same, for the events that have a field.
C13_InsertCountsAgreeWithFields ==
  HandlersDone /\ postgres_enabled(storage) =>
    \A e \in DOMAIN WorkingEvents : WorkingEvents[e].inputs # <<>> => InsertShape(e)

RECURSIVE ParseNat(_)
\* The number a text of decimal digits denotes.
ParseNat(digits) ==
  IF digits = <<>> THEN 0
  ELSE 10 * ParseNat(SubSeq(digits, 1, Len(digits) - 1))
         + (CHOOSE d \in 0..9 : DecimalDigits[d + 1] = digits[Len(digits)])

\* Position of the last token equal to tok at or before position upto (0 if none).
LastAt(text, tok, upto) ==
  LET at == {i \in 1..upto : text[i] = tok}
  IN IF at = {} THEN 0 ELSE CHOOSE i \in at : \A k \in at : i >= k

\* Reads Some(vec!["a".to_string(), ...]) / None back into an optional list.
ParseIndexed(lit) ==
  IF lit = <<"None">> THEN None
  ELSE LET parts == Split(SubSeq(lit, 2, Len(lit) - 1), ", ")
       IN Some([k \in DOMAIN parts |-> SubSeq(parts[k], 2, Len(parts[k]) - 1)])

\* Reads the optional block literal that ends at position j of an entry:
\* its value and the position of its first token.
ParseBlockEndingAt(entry, j) ==
  IF entry[j] = "None" THEN [value |-> None, first |-> j]
  ELSE LET s == LastAt(entry, "Some(", j)
       IN [value |-> Some(ParseNat(SubSeq(entry, s + 1, j - 1))), first |-> s]

\* Reads one ContractDetails constructor back into a network entry.
ParseDetail(entry) ==
  LET q == LastAt(entry, "Some(", Len(entry))
      polling_every == Some(ParseNat(SubSeq(entry, q + 1, Len(entry) - 2)))
      end_block == ParseBlockEndingAt(entry, q - 2)
      start_block == ParseBlockEndingAt(entry, end_block.first - 2)
      network == Between(entry, "\"", "\".to_string(),")
      text_of(label) == Between(entry, label, "\".to_string(),")
      list_of(label, next) ==
        LET lit == Between(entry, label, next) IN ParseIndexed(SubSeq(lit, 1, Len(lit) - 1))
      setup ==
        CASE entry[1] = "ContractDetails::new_with_address(" ->
               [kind |-> "Address",
                address |-> SubSeq(entry, FirstAt(entry, "\".to_string(),", 1) + 2,
                                   FirstAt(entry, "\".to_string()", 1) - 1)]
          [] entry[1] = "ContractDetails::new_with_filter(" ->
               [kind |-> "Filter",
                event_name |-> text_of("event_name: \""),
                indexed_1 |-> list_of("indexed_1: ", "indexed_2: "),
                indexed_2 |-> list_of("indexed_2: ", "indexed_3: "),
                indexed_3 |-> list_of("indexed_3: ", "}")]
          [] entry[1] = "ContractDetails::new_with_factory(" ->
               [kind |-> "Factory",
                address |-> text_of("address: \""),
                event_name |-> text_of("event_name: \""),
                parameter_name |-> text_of("parameter_name: \""),
                abi |-> text_of("abi: \"")]
  IN [network |-> network, setup |-> setup, start_block |-> start_block.value,
      end_block |-> end_block.value, polling_every |-> polling_every]

DetailConstructors ==
  {"ContractDetails::new_with_address(", "ContractDetails::new_with_filter(",
   "ContractDetails::new_with_factory("}

\* Reads the vec![...] of constructors back into the list of network entries.
ParseDetails(text) ==
  LET starts == {i \in DOMAIN text : text[i] \in DetailConstructors}
      nth(k) == CHOOSE i \in starts : Cardinality({j \in starts : j <= i}) = k
      last(k) == IF k = Cardinality(starts) THEN Len(text) ELSE nth(k + 1) - 1
  IN [k \in 1..Cardinality(starts) |-> ParseDetail(SubSeq(text, nth(k), last(k)))]

\* Reads the contract_information() accessor back into the attributes of a
\* Contract.
ParseContract(text) ==
  LET include_events == Between(text, "include_events: ", "reorg_safe_distance: ")
  IN [name |-> Between(text, "name: \"", "\".to_string(),"),
      details |-> ParseDetails(Between(text, "vec![", "]")),
      abi_path |-> Between(text, "abi: \"", "\".to_string(),"),
      include_events |-> ParseIndexed(SubSeq(include_events, 1, Len(include_events) - 1)),
      reorg_safe_distance |-> text[FirstAt(text, "reorg_safe_distance: ", 1) + 1] = "true",
      generate_csv |-> text[FirstAt(text, "generate_csv: ", 1) + 1] = "true"]

\* The attributes of the input contract that the accessor carries.
ContractAttributes(c) ==
  [name |-> c.name, details |-> c.details, abi_path |-> c.abi_path,
   include_events |-> c.include_events, reorg_safe_distance |-> c.reorg_safe_distance,
   generate_csv |-> c.generate_csv]

\* C14 (as stated): the accessor text reads back as exactly the input
\* contract: every network entry with its setup, block range and polling
\* interval (an absent one absent), in input order, and the same name, ABI
\* reference, allow-list and flags.
C14_AccessorReconstructsContract ==
  BindingsDone => ParseContract(BindingsCode.contract_type_fn) = ContractAttributes(contract)

\* C14 (amended): the same, except that the polling interval always reads
\* back present: an absent interval is reconstructed as the default 1000.
C14_AccessorReconstructsWithDefaultPolling ==
  BindingsDone =>
    ParseContract(BindingsCode.contract_type_fn)
      = [ContractAttributes(contract) EXCEPT
           !.details = [k \in DOMAIN contract.details |->
                          [contract.details[k] EXCEPT
                             !.polling_every =
                               IF IsSome(contract.details[k].polling_every)
                               THEN contract.details[k].polling_every
                               ELSE Some(1000)]]]

\* An accessor over a filter entry with indexed lists and an entry without
\* a polling interval.
C14_Witness ==
  /\ BindingsDone
  /\ Len(contract.details) = 2
  /\ contract.details[1].setup.kind = "Filter"
  /\ Len(Unwrap(contract.details[1].setup.indexed_1)) = 2
  /\ contract.details[2].polling_every = None
  /\ IsSome(contract.details[2].start_block)
  /\ Len(ParseContract(BindingsCode.contract_type_fn).details) = 2

\* The get_provider accessor and its conditional branches: the positions of
\* the branch heads and the network each branch tests.
ProviderFn == BindingsCode.build_get_provider_fn
ProviderBranchHeads == {i \in DOMAIN ProviderFn : ProviderFn[i] = "if network == \""}
ProviderBranchNetwork(i) ==
  SubSeq(ProviderFn, i + 1, FirstAt(ProviderFn, "\" {", i) - 1)
ProviderBranchBody(i) ==
  SubSeq(ProviderFn, FirstAt(ProviderFn, "\" {", i) + 1, FirstAt(ProviderFn, "}", i))
ContractNetworks == {contract.details[k].network : k \in DOMAIN contract.details}

\* Every else is attached to the closing brace of a conditional branch.
ProviderElseAttached ==
  \A i \in DOMAIN ProviderFn :
    ProviderFn[i] \in {" else ", "else {"} => i > 1 /\ ProviderFn[i - 1] = "}"

ProviderFallback ==
  EndsWith(ProviderFn, <<"else {", "panic!(\"Network not supported\")", "}", "}">>)

ProviderBranchesReturn ==
  \A i \in ProviderBranchHeads :
    ProviderBranchBody(i)
      = <<"return super::super::super::networks::">>
          \o network_provider_fn_name_by_name(ProviderBranchNetwork(i)) \o <<"();", "}">>

\* C15 (as stated): get_provider has exactly one branch per distinct network
\* of the contract, each returning that network's provider accessor, then a
\* panicking fallback, and is well-formed for any number of networks.
C15_OneBranchPerDistinctNetwork ==
  BindingsDone =>
    /\ Cardinality(ProviderBranchHeads) = Cardinality(ContractNetworks)
    /\ {ProviderBranchNetwork(i) : i \in ProviderBranchHeads} = ContractNetworks
    /\ ProviderBranchesReturn
    /\ ProviderFallback
    /\ ProviderElseAttached

\* What holds of the code: one branch per network entry, in entry order,
\* each returning the entry's provider accessor, then the fallback.
C15_OneBranchPerEntry ==
  BindingsDone =>
    /\ Cardinality(ProviderBranchHeads) = Len(contract.details)
    /\ {ProviderBranchNetwork(i) : i \in ProviderBranchHeads} = ContractNetworks
    /\ ProviderBranchesReturn
    /\ ProviderFallback

\* A file has its header row exactly once, as its first line.
HeaderOnceFirst(lines) ==
  /\ lines # <<>>
  /\ lines[1] = "header"
  /\ \A i \in DOMAIN lines : i > 1 => lines[i] = "row"

\* C16 (as stated): whatever handlers were constructed, however often and
\* over however many runs, every flat file starts with its one header row
\* and holds only data rows after it, and the file of a constructed handler
\* that writes rows has its header.
C16_HeaderWrittenOnce ==
  Generated =>
    /\ \A path \in DOMAIN fs_files : HeaderOnceFirst(fs_files[path])
    /\ \A e \in constructed :
         RowAppended(e) =>
           AppenderPath(e) \in DOMAIN fs_files /\ HeaderOnceFirst(fs_files[AppenderPath(e)])

\* What holds of the code: the same, for a contract whose generate_csv
\* attribute is set.
C16_HeaderWrittenOnceWhenGenerated ==
  Generated /\ contract.generate_csv =>
    /\ \A path \in DOMAIN fs_files : HeaderOnceFirst(fs_files[path])
    /\ \A e \in constructed :
         RowAppended(e) =>
           AppenderPath(e) \in DOMAIN fs_files /\ HeaderOnceFirst(fs_files[AppenderPath(e)])

\* A second run constructs a handler over a file that holds rows.
C16_RerunOverRows ==
  ~(/\ Generated
    /\ contract.generate_csv
    /\ \E e \in constructed :
         /\ AppenderPath(e) \in DOMAIN fs_files
         /\ Len(fs_files[AppenderPath(e)]) = MaxRows + 1)

SourceErrors == {"Err(io::Error)", "Err(serde_json::Error)"}

\* C17: when the schema source cannot be read or parsed, each entry point
\* that ran returned the error of the read or of the parse (it neither
\* panicked nor succeeded), returned no artifact text, and no directory was
\* created.
C17_SourceErrorsReturned ==
  contract.abi_source # "ok" =>
    /\ pc = "bindings" => bindings.status \in SourceErrors
    /\ pc = "handlers" => handlers.status \in SourceErrors
    /\ bindings.status \in SourceErrors \cup {"none"}
    /\ handlers.status \in SourceErrors \cup {"none"}
    /\ contract.abi_source = "unreadable" =>
         bindings.status # "Err(serde_json::Error)" /\ handlers.status # "Err(serde_json::Error)"
    /\ contract.abi_source = "malformed" =>
         bindings.status # "Err(io::Error)" /\ handlers.status # "Err(io::Error)"
    /\ bindings.code = <<>>
    /\ handlers.code = <<>>
    /\ fs_dirs = {}
    /\ abi_items = <<>>

\* Both entry points ran on a malformed source, under a configuration whose
\* successful pass creates the flat-file directory.
C17_Witness ==
  /\ contract.abi_source = "malformed"
  /\ contract.generate_csv
  /\ csv_enabled(storage)
  /\ pc = "handlers"
  /\ bindings.status = "Err(serde_json::Error)"
  /\ handlers.status = "Err(serde_json::Error)"

DirOf(path) == SubSeq(path, 1, LastAt(path, "/", Len(path)) - 1)

\* C19 (as stated): with flat-file storage on, the path embedded for every
\* event is <configured_path>/<contract_name>/<contract_name>-<event_name>.csv
\* with the directory segment and the file name lowercased, and the directory
\* that was created is the directory of that file.
C19_FlatFilePathLowercased ==
  bindings.status = "ok" /\ csv_enabled(storage) =>
    \A e \in DOMAIN WorkingEvents :
      /\ AppenderPath(e)
           = Unwrap(storage.csv).path \o <<"/">> \o to_lowercase(contract.name) \o <<"/">>
               \o to_lowercase(contract.name \o <<"-">> \o WorkingEvents[e].name)
               \o <<".", "c", "s", "v">>
      /\ fs_dirs = {DirOf(AppenderPath(e))}

\* What holds of the code: for a contract whose generate_csv is set, the
\* file name is lowercased, the directory segment is the contract name as
\* given, the existence guard tests the appender's path and the directory
\* created is the directory of the file.
C19_FlatFilePathWhenGenerated ==
  bindings.status = "ok" /\ csv_enabled(storage) /\ contract.generate_csv =>
    \A e \in DOMAIN WorkingEvents :
      /\ AppenderPath(e)
           = Unwrap(storage.csv).path \o <<"/">> \o contract.name \o <<"/">>
               \o to_lowercase(contract.name \o <<"-">> \o WorkingEvents[e].name)
               \o <<".", "c", "s", "v">>
      /\ HeaderGuardPath(e) = AppenderPath(e)
      /\ fs_dirs = {DirOf(AppenderPath(e))}

\* The header row a constructor text writes, entry by entry.
HeaderEntriesOf(generator) ==
  LET parts == Split(Between(generator, "csv.append_header(vec![",
                             ".into()]).await.unwrap();"), ".into(), ")
  IN [k \in DOMAIN parts |-> Str(parts[k])]
HeaderEntries(e) == HeaderEntriesOf(CsvGeneratorOf(e))

\* The row the handler of event e appends: its tokens, and the access paths
\* of its field entries in order.
RowText(e) ==
  Between(HandlersCode.handlers[e].csv_write, "context.csv.append(vec![", "]).await.unwrap();")
PathAt(text, i) ==
  LET stops == {j \in i..Len(text) : text[j] \notin IdentChars \cup {"."}}
      end == IF stops = {} THEN Len(text) + 1 ELSE CHOOSE j \in stops : \A k \in stops : j <= k
  IN SubSeq(text, i, end - 1)
RowFieldStartsOf(row) == {i \in DOMAIN row : row[i] = "result.event_data."}
RowPathsOf(row) ==
  LET starts == RowFieldStartsOf(row)
      ordered == SelectSeq([i \in DOMAIN row |-> i], LAMBDA i : i \in starts)
  IN [k \in DOMAIN ordered |-> PathAt(row, ordered[k] + 1)]
RowPaths(e) == RowPathsOf(RowText(e))
\* The tokens that end a row entry.
RowEntryEnds ==
  {"format!(\"{:?}\", result.tx_information.address),", "),",
   ".iter().map(|byte| format!(\"{:02x}\", byte)).collect::<Vec<_>>().join(\"\"),",
   ".iter().map(ToString::to_string).collect::<Vec<_>>().join(\",\"),",
   ".to_string(),",
   "format!(\"{:?}\", result.tx_information.transaction_hash.unwrap()),",
   "result.tx_information.block_number.unwrap().to_string(),",
   "result.tx_information.block_hash.unwrap().to_string()"}
RowEntryCountOf(row) == Cardinality({i \in DOMAIN row : row[i] \in RowEntryEnds})

\* The bare-name projection of an event's fields.
BareNames(info) ==
  LET r == generate_abi_name_properties(info.inputs, "CsvHeaderNames", None)
  IN [k \in DOMAIN r |-> Str(r[k].value)]

\* The header entry that names the field an access path reads.
HeaderOfPath(path) == Str(<<Quote>> \o [i \in DOMAIN path |-> IF path[i] = "." THEN "_" ELSE path[i]] \o <<Quote>>)

\* A header that is written is contract_address, the bare names, and the
\* three transaction columns.
HeaderShape(generator, names) ==
  HasToken(generator, "csv.append_header(vec![") =>
    HeaderEntriesOf(generator)
      = <<"\"contract_address\"">> \o names
          \o <<"\"tx_hash\"", "\"block_number\"", "\"block_hash\"">>

\* A row that is appended is the address, one value per name, and the
\* three transaction values.
RowShape(row, paths, names) ==
  /\ row[1] = "format!(\"{:?}\", result.tx_information.address),"
  /\ SubSeq(row, Len(row) - 2, Len(row))
       = <<"format!(\"{:?}\", result.tx_information.transaction_hash.unwrap()),",
           "result.tx_information.block_number.unwrap().to_string(),",
           "result.tx_information.block_hash.unwrap().to_string()">>
  /\ Len(paths) = Len(names)
  /\ \A k \in DOMAIN names : HeaderOfPath(paths[k]) = names[k]
  /\ RowEntryCountOf(row) = Len(names) + 4
  /\ \A i \in RowFieldStartsOf(row) : i > 1 /\ i < Len(row) - 2

FieldAccessTokens == {"(&result.event_data.", "&result.event_data."}
FieldExpressions(text) ==
  LET starts == SelectSeq([i \in DOMAIN text |-> i], LAMBDA i : text[i] \in FieldAccessTokens)
  IN [k \in DOMAIN starts |->
        SubSeq(text, starts[k], IF k < Len(starts) THEN starts[k + 1] - 1 ELSE Len(text))]
CarriesInto(expression) == HasToken(expression, ".into()")

\* The type tags of an event's projected fields, in projection order.
LeafTags(info) ==
  LET leaves == LeavesOf(info.inputs, <<>>)
  IN [k \in DOMAIN leaves |-> leaves[k].field.type_]

\* bytesN or bytesN[]: "bytes", at least one digit, and at most an array suffix.
DigitChars == {"0", "1", "2", "3", "4", "5", "6", "7", "8", "9"}
IsFixedWidthBytes(tag) ==
  LET base == IF EndsWith(tag, t_array_suffix) THEN SubSeq(tag, 1, Len(tag) - 2) ELSE tag
  IN /\ StartsWith(base, t_bytes)
     /\ Len(base) > Len(t_bytes)
     /\ \A i \in (Len(t_bytes) + 1)..Len(base) : base[i] \in DigitChars

\* C21 (as stated): in the value-expression list of the relational write, a
\* field's expression carries .into() exactly when the field's type is
\* bytesN or bytesN[], whether or not the table has a wrapper for it.
C21_IntoIffFixedWidthBytes ==
  HandlersDone /\ postgres_enabled(storage) =>
    \A e \in DOMAIN WorkingEvents :
      LET tags == LeafTags(WorkingEvents[e])
          exprs == FieldExpressions(PostgresWrite(e))
      IN /\ Len(exprs) = Len(tags)
         /\ \A k \in DOMAIN tags : CarriesInto(exprs[k]) <=> IsFixedWidthBytes(tags[k])

\* What holds of the code: the conversion is carried exactly by the
\* fixed-width bytes fields the table has a wrapper for.
C21_IntoIffWrappedFixedWidthBytes ==
  HandlersDone /\ postgres_enabled(storage) =>
    \A e \in DOMAIN WorkingEvents :
      LET tags == LeafTags(WorkingEvents[e])
          exprs == FieldExpressions(PostgresWrite(e))
      IN /\ Len(exprs) = Len(tags)
         /\ \A k \in DOMAIN tags :
              CarriesInto(exprs[k]) <=> (IsFixedWidthBytes(tags[k]) /\ tags[k] \in wrapped_tags)

\* Fixed-width bytes fields with the conversion are generated.
C21_ConversionGenerated ==
  /\ HandlersDone
  /\ postgres_enabled(storage)
  /\ \E e \in DOMAIN WorkingEvents :
       \E k \in DOMAIN LeafTags(WorkingEvents[e]) :
         /\ IsFixedWidthBytes(LeafTags(WorkingEvents[e])[k])
         /\ CarriesInto(FieldExpressions(PostgresWrite(e))[k])

\* ------------------------------------------------- row entries by type tag
\* The stringification form of each field entry of a row, in order, read
\* from what surrounds the entry's access path.
RowForms(row) ==
  LET starts == SelectSeq([i \in DOMAIN row |-> i], LAMBDA i : row[i] = "result.event_data.")
      form(i) ==
        LET after == row[i + 1 + Len(PathAt(row, i + 1))]
        IN CASE after = "," /\ row[i - 1] = "format!(\"{:?}\", " /\ row[i + 2 + Len(PathAt(row, i + 1))] = ")," -> "debug"
             [] after = ".iter().map(|byte| format!(\"{:02x}\", byte)).collect::<Vec<_>>().join(\"\")," -> "hex"
             [] after = ".iter().map(ToString::to_string).collect::<Vec<_>>().join(\",\")," -> "joined"
             [] after = ".to_string()," -> "default"
             [] OTHER -> "none"
  IN [k \in DOMAIN starts |-> form(starts[k])]

\* The form the type tag of a field calls for: an address in debug form, any
\* array by its elements joined with commas, a byte array as hex pairs,
\* anything else by default stringification.
FormOfTag(tag) ==
  IF tag = t_address THEN "debug"
  ELSE IF HasSub(tag, t_array_suffix) THEN "joined"
  ELSE IF StartsWith(tag, t_bytes) THEN "hex"
  ELSE "default"

\* C22 (as stated): every projected field has one entry in the flat-file row,
\* in the form its type tag calls for; every array-typed field, arrays of
\* byte types included, gets the comma-joined form.
C22_RowFormByTag ==
  HandlersDone =>
    \A e \in DOMAIN WorkingEvents :
      RowEmitted(e) =>
        LET tags == LeafTags(WorkingEvents[e])
            forms == RowForms(RowText(e))
        IN /\ Len(forms) = Len(tags)
           /\ \A k \in DOMAIN tags : forms[k] = FormOfTag(tags[k])

\* The form the code chooses: the byte test comes before the array test.
FormOfTagBytesFirst(tag) ==
  IF tag = t_address THEN "debug"
  ELSE IF HasSub(tag, t_bytes) THEN "hex"
  ELSE IF HasSub(tag, t_array_suffix) THEN "joined"
  ELSE "default"

\* What holds of the code: one entry per field, arrays of byte types in the
\* hex-pair form.
C22_RowFormBytesFirst ==
  HandlersDone =>
    \A e \in DOMAIN WorkingEvents :
      RowEmitted(e) =>
        LET tags == LeafTags(WorkingEvents[e])
            forms == RowForms(RowText(e))
        IN /\ Len(forms) = Len(tags)
           /\ \A k \in DOMAIN tags : forms[k] = FormOfTagBytesFirst(tags[k])

\* ------------------------------------------------ the emitted call at run time
\* C23: a run of the emitted call of an event on a batch invokes the user
\* callback exactly once, with one result per item in input order, when
\* every item's decoded value has the event's data type; when an item has
\* another type (a decode error included) it panics and does not invoke the
\* callback at all.
C23_CallbackAllOrNothing ==
  last_call.event # 0 =>
    LET info == WorkingEvents[last_call.event]
        events == last_call.events
        typed == \A i \in DOMAIN events : events[i].decoded_data = info.struct_data
    IN IF typed
       THEN /\ ~last_call.panic
            /\ Len(last_call.callback) = 1
            /\ Len(last_call.callback[1]) = Len(events)
            /\ \A k \in DOMAIN events :
                 /\ last_call.callback[1][k].struct = info.struct_result
                 /\ last_call.callback[1][k].event_data = events[k].decoded_data
                 /\ last_call.callback[1][k].tx_information = events[k].tx_information
       ELSE /\ last_call.panic
            /\ last_call.callback = <<>>

\* A call on a batch that holds an item of the event's type and a decode
\* error has panicked.
C23_Witness ==
  /\ last_call.event # 0
  /\ last_call.panic
  /\ \E i, j \in DOMAIN last_call.events :
       /\ last_call.events[i].decoded_data = WorkingEvents[last_call.event].struct_data
       /\ last_call.events[j].decoded_data = AbiError

\* A call on a batch of two items of the event's type has invoked the callback.
C23_WholeBatchDelivered ==
  /\ last_call.event # 0
  /\ Len(last_call.events) >= 2
  /\ Len(last_call.callback) = 1

\* ------------------------------------------------------ names of constructs
\* The names the artifacts give to each construct, in the order generated.
NamesAfter(text, token) ==
  LET at == SelectSeq([i \in DOMAIN text |-> i], LAMBDA i : text[i] = token)
  IN [k \in DOMAIN at |-> IdentAt(text, at[k] + 1)]
LinesOf(text) == IF text = <<>> THEN <<>> ELSE Split(text, "\n")
VariantNames ==
  LET lines == LinesOf(BindingsCode.event_enums)
  IN [k \in DOMAIN lines |-> IdentAt(lines[k], 1)]
TopicArmVariants ==
  LET lines == LinesOf(BindingsCode.topic_ids_match_arms)
  IN [k \in DOMAIN lines |-> NamesAfter(lines[k], "::")[1]]
RecordNames == NamesAfter(BindingsCode.structs, "#[derive(Debug)] pub struct ")
CallbackStructNames ==
  LET structs == LinesOf(BindingsCode.event_callback_structs)
  IN [k \in DOMAIN structs |-> NamesAfter(structs[k], "pub struct ")[1]]
HandlerFnNames == [k \in DOMAIN HandlersCode.handlers |-> HandlersCode.handlers[k].handler_fn_name]

PairwiseDistinct(names) == \A i, j \in DOMAIN names : i # j => names[i] # names[j]

\* The working events are pairwise distinct: no two have the same name and
\* the same parameter signature.
DistinctWorkingEvents ==
  PairwiseDistinct([e \in DOMAIN WorkingEvents |->
                      <<WorkingEvents[e].name, WorkingEvents[e].signature>>])

\* C24 (as stated): distinct working events, two with one name and different
\* signatures included, get pairwise distinct variant names, topic-id arms,
\* record names, callback-struct names and handler-function names.
C24_DistinctEventsDistinctNames ==
  DistinctWorkingEvents =>
    /\ BindingsDone =>
         /\ Len(VariantNames) = Len(WorkingEvents)
         /\ PairwiseDistinct(VariantNames)
         /\ PairwiseDistinct(TopicArmVariants)
         /\ PairwiseDistinct(RecordNames)
         /\ PairwiseDistinct(CallbackStructNames)
    /\ HandlersDone => PairwiseDistinct(HandlerFnNames)

\* What holds of the code: the names are pairwise distinct when the working
\* events have pairwise distinct names that stay distinct in snake case, and
\* the schema has no other event.
C24_DistinctNamesKept ==
  /\ PairwiseDistinct([e \in DOMAIN WorkingEvents |-> camel_to_snake(WorkingEvents[e].name)])
  /\ Len(WorkingEvents) = Len(extract_event_names_and_signatures_from_abi(contract.abi))
  =>
    /\ BindingsDone =>
         /\ Len(VariantNames) = Len(WorkingEvents)
         /\ PairwiseDistinct(VariantNames)
         /\ PairwiseDistinct(TopicArmVariants)
         /\ PairwiseDistinct(RecordNames)
         /\ PairwiseDistinct(CallbackStructNames)
    /\ HandlersDone => PairwiseDistinct(HandlerFnNames)

====
